---- MODULE Spec2Model ----
(***************************************************************************)
(* Model of the email-automation service: the AI provider orchestration    *)
(* of src/api/routes/ai.js over the provider services, the email           *)
(* verification workflow of src/automation/emailVerification.js and the    *)
(* concurrent workflows started by src/api/routes/automation.js, the       *)
(* extractors and the mailbox client of src/core/emailClient.js with its   *)
(* MultiAIService, the local analysis of src/core/huggingfaceService.js,   *)
(* and the HTTP routes of src/api/routes behind the rate limiters of       *)
(* src/api/server.js and the middleware of src/middleware/auth.js.         *)
(***************************************************************************)
EXTENDS Integers, Sequences, FiniteSets, TLC

VARIABLES
  env,          \* process.env at startup: which provider keys are set
  primaryAI,    \* ai.js module-level primaryAI
  fallbackAI,   \* ai.js module-level fallbackAI
  pc,           \* position of the current callWithFallback call
  call,         \* the method and arguments of the current call
  awaiting,     \* the adapters whose remote request is outstanding
  silent,       \* TRUE when the outstanding remote request will never be answered
  log,          \* the adapter attempts of the current call, in order
  outcome,      \* what the call returned or threw
  wpc,          \* position of executeVerificationWorkflow
  now,          \* Date.now(), in ms
  startTime,    \* waitForVerificationEmail's startTime
  maxWaitTime,  \* executeVerificationWorkflow's maxWaitTime argument
  browser,      \* TRUE when puppeteerHelper.browser is set
  chrome,       \* the browser process: "none", "open" or "closed"
  imap,         \* the mailbox connection: "idle", "connected" or "ended"
  calls,        \* the calls made on the mailbox client, the browser helper and the timer, in order
  verificationEmail, \* the message waitForVerificationEmail returned, if any
  emails,       \* waitForVerificationEmail's emails: the latest answer of getLatestFromSender
  pending,      \* what the try/catch settled with, while cleanup() is suspended
  wresult,      \* what executeVerificationWorkflow returned or threw
  failedStep,   \* the step whose error the catch block caught
  page,         \* the text of the page's .verification-success element, "" while it has none
  applied,      \* the pure function last applied: "none" or its name
  argument,     \* the email content it was applied to
  returned,     \* what it returned
  serverEnv,    \* process.env as the HTTP middleware reads it
  req,          \* the HTTP request being served
  status,       \* the status of the response sent, 0 while none is sent
  reached,      \* the middleware, handlers and effects the request reached, in order
  workflows,    \* the EmailVerificationWorkflow object of each verify-email request
  imaps,        \* the Imap connections constructed so far, each with its state
  browsers,     \* the browser processes launched so far, each with its state
  ipStore,      \* the store of the limiter of server.js: the requests counted for each client address in the window
  handled,      \* how many requests with each API key the route handlers got in the window
  answered,     \* the status the latest request of the window was answered with, 0 before any
  inbox,        \* the messages of the mailbox that imap.search lists, oldest first
  query,        \* the call on the mailbox client: searchEmails or getAllEmails, with its limit and offset
  fetched,      \* the messages handed to imap.fetch, in order
  msgs,         \* of each fetched message: the events that have fired for it, and its emailData
  fetchedEmails, \* the emails array of the call
  resolved,     \* what the promise of the call resolved with
  multiEnv,     \* process.env as MultiAIService reads it: which provider keys are set
  enabledProviders, \* MultiAIService.enabledProviders
  analysis,     \* the analyzeEmail call of MultiAIService: its position and its analysisType
  attempted,    \* the providers whose vendor was sent a request in the call, in order
  multiResult   \* what analyzeEmail of MultiAIService returned or threw

orchVars == <<env, primaryAI, fallbackAI, pc, call, awaiting, silent, log, outcome>>

wfVars == <<wpc, now, startTime, maxWaitTime, browser, chrome, imap, calls, verificationEmail, emails,
           pending, wresult, failedStep, page>>

utilVars == <<applied, argument, returned>>

apiVars == <<serverEnv, req, status, reached>>

taskVars == <<workflows, imaps, browsers>>

limitVars == <<ipStore, handled, answered>>

mailVars == <<inbox, query, fetched, msgs, fetchedEmails, resolved>>

multiVars == <<multiEnv, enabledProviders, analysis, attempted, multiResult>>

vars == <<orchVars, wfVars, utilVars, apiVars, taskVars, limitVars, mailVars, multiVars>>

(***************************************************************************)
(* Text helpers: JavaScript string operations on TLC strings.              *)
(***************************************************************************)

\* String.prototype.includes
Includes(s, k) == \E i \in 1..(Len(s) - Len(k) + 1) : SubSeq(s, i, i + Len(k) - 1) = k

CharAt(s, i) == SubSeq(s, i, i)

Whitespace == {" ", "\t", "\n", "\r"}

UpperLetters == <<"A","B","C","D","E","F","G","H","I","J","K","L","M",
                  "N","O","P","Q","R","S","T","U","V","W","X","Y","Z">>
LowerLetters == <<"a","b","c","d","e","f","g","h","i","j","k","l","m",
                  "n","o","p","q","r","s","t","u","v","w","x","y","z">>

LowerChar(c) ==
  IF \E i \in 1..26 : UpperLetters[i] = c
  THEN LowerLetters[CHOOSE i \in 1..26 : UpperLetters[i] = c]
  ELSE c

UpperChar(c) ==
  IF \E i \in 1..26 : LowerLetters[i] = c
  THEN UpperLetters[CHOOSE i \in 1..26 : LowerLetters[i] = c]
  ELSE c

\* character by character, the text taken in halves
RECURSIVE ToLowerCase(_)
ToLowerCase(s) ==
  IF Len(s) <= 1 THEN LowerChar(s)
  ELSE ToLowerCase(SubSeq(s, 1, Len(s) \div 2)) \o ToLowerCase(SubSeq(s, Len(s) \div 2 + 1, Len(s)))

RECURSIVE ToUpperCase(_)
ToUpperCase(s) ==
  IF Len(s) <= 1 THEN UpperChar(s)
  ELSE ToUpperCase(SubSeq(s, 1, Len(s) \div 2)) \o ToUpperCase(SubSeq(s, Len(s) \div 2 + 1, Len(s)))

\* String.prototype.split with a regular expression of the shape /[seps]+/:
\* the pieces between maximal runs of separator characters, with an empty
\* piece before a separator that opens the text and after one that closes it.
Split(s, seps) ==
  LET IsSep(p) == CharAt(s, p) \in seps
      begins == {p \in 1..Len(s) : ~IsSep(p) /\ (p = 1 \/ IsSep(p - 1))}
      Begin(k) == CHOOSE p \in begins : Cardinality({q \in begins : q < p}) = k - 1
      End(p) == CHOOSE e \in p..Len(s) :
                  /\ \A q \in p..e : ~IsSep(q)
                  /\ e = Len(s) \/ IsSep(e + 1)
      pieces == [k \in 1..Cardinality(begins) |-> SubSeq(s, Begin(k), End(Begin(k)))]
      opened == s = "" \/ IsSep(1)
      closed == s # "" /\ IsSep(Len(s))
  IN (IF opened THEN <<"">> ELSE <<>>) \o pieces \o (IF closed THEN <<"">> ELSE <<>>)

\* String.prototype.trim
RECURSIVE TrimStart(_)
TrimStart(s) ==
  IF Len(s) > 0 /\ CharAt(s, 1) \in Whitespace THEN TrimStart(SubSeq(s, 2, Len(s))) ELSE s

RECURSIVE TrimEnd(_)
TrimEnd(s) ==
  IF Len(s) > 0 /\ CharAt(s, Len(s)) \in Whitespace THEN TrimEnd(SubSeq(s, 1, Len(s) - 1)) ELSE s

Trim(s) == TrimEnd(TrimStart(s))

\* String.prototype.substring(0, n)
Substring0(s, n) == IF Len(s) <= n THEN s ELSE SubSeq(s, 1, n)

\* Array.prototype.slice(0, n)
Slice0(q, n) == IF Len(q) <= n THEN q ELSE SubSeq(q, 1, n)

(***************************************************************************)
(* The local inference engine: HuggingFaceAIService's rule-based analysis. *)
(***************************************************************************)

urgentKeywords == <<
    "urgent", "asap", "immediate", "emergency", "critical", "deadline", "rush" >>

supportKeywords == <<
    "help", "issue", "problem", "bug", "error", "support", "assistance", "trouble" >>

salesKeywords == <<
    "purchase", "buy", "order", "payment", "invoice", "billing", "subscription",
    "pricing", "cost", "quote" >>

meetingKeywords == <<
    "meeting", "schedule", "appointment", "call", "conference", "zoom", "teams" >>

reportKeywords == <<
    "report", "status", "update", "progress", "summary", "quarterly", "monthly" >>

complaintKeywords == <<
    "complaint", "dissatisfied", "unhappy", "frustrated", "disappointed", "refund" >>

\* detectCategory: the categories object, in its insertion order
categories == <<
    [category |-> "urgent", keywords |-> urgentKeywords],
    [category |-> "support", keywords |-> supportKeywords],
    [category |-> "sales", keywords |-> salesKeywords],
    [category |-> "meeting", keywords |-> meetingKeywords],
    [category |-> "report", keywords |-> reportKeywords],
    [category |-> "complaint", keywords |-> complaintKeywords] >>

\* keywords.filter(keyword => content.includes(keyword)).length
KeywordScore(content, keywords) ==
  Cardinality({i \in 1..Len(keywords) : Includes(content, keywords[i])})

\* the for loop of detectCategory from entry i on
RECURSIVE DetectCategoryFrom(_, _, _, _)
DetectCategoryFrom(content, i, maxScore, detectedCategory) ==
  IF i > Len(categories) THEN detectedCategory
  ELSE LET score == KeywordScore(content, categories[i].keywords) IN
       IF score > maxScore
       THEN DetectCategoryFrom(content, i + 1, score, categories[i].category)
       ELSE DetectCategoryFrom(content, i + 1, maxScore, detectedCategory)

detectCategory(content) == DetectCategoryFrom(content, 1, 0, "general")

highPriorityKeywords == <<
    "urgent", "asap", "immediate", "critical", "emergency", "deadline", "today", "now",
    "important", "priority" >>

lowPriorityKeywords == <<
    "whenever", "no rush", "when possible", "eventually", "sometime" >>

\* (content.match(/!/g) || []).length
CountChar(s, c) == Cardinality({i \in 1..Len(s) : CharAt(s, i) = c})

detectPriority(content, words) ==
  LET highScore == KeywordScore(content, highPriorityKeywords)
      lowScore == KeywordScore(content, lowPriorityKeywords)
      hasExclamation == CountChar(content, "!") > 2
      hasAllCaps == \E i \in 1..Len(words) :
                      Len(words[i]) > 3 /\ words[i] = ToUpperCase(words[i])
  IN IF highScore >= 2 \/ hasExclamation \/ hasAllCaps THEN "high"
     ELSE IF lowScore > 0 THEN "low"
     ELSE "medium"

positiveWords == <<
    "thank", "thanks", "great", "excellent", "amazing", "wonderful", "love", "perfect",
    "awesome", "happy", "pleased", "satisfied" >>

negativeWords == <<
    "angry", "frustrated", "disappointed", "terrible", "awful", "hate", "worst",
    "horrible", "upset", "complaint", "problem", "issue" >>

detectSentiment(content) ==
  LET positiveScore == KeywordScore(content, positiveWords)
      negativeScore == KeywordScore(content, negativeWords)
  IN IF positiveScore > negativeScore /\ positiveScore > 0 THEN "positive"
     ELSE IF negativeScore > positiveScore /\ negativeScore > 0 THEN "negative"
     ELSE "neutral"

Min(a, b) == IF a < b THEN a ELSE b
Max(a, b) == IF a > b THEN a ELSE b

\* the urgency score without its clamp to 1..10
calculateUrgencyScore_Unclamped(content) ==
  5 + (IF Includes(content, "urgent") THEN 3 ELSE 0)
    + (IF Includes(content, "asap") THEN 3 ELSE 0)
    + (IF Includes(content, "immediate") THEN 2 ELSE 0)
    + (IF Includes(content, "deadline") THEN 2 ELSE 0)
    + (IF Includes(content, "today") THEN 1 ELSE 0)
    + (IF CountChar(content, "!") > 1 THEN 1 ELSE 0)

calculateUrgencyScore(content) ==
  LET score == 5
               + (IF Includes(content, "urgent") THEN 3 ELSE 0)
               + (IF Includes(content, "asap") THEN 3 ELSE 0)
               + (IF Includes(content, "immediate") THEN 2 ELSE 0)
               + (IF Includes(content, "deadline") THEN 2 ELSE 0)
               + (IF Includes(content, "today") THEN 1 ELSE 0)
               + (IF CountChar(content, "!") > 1 THEN 1 ELSE 0)
  IN Min(10, Max(1, score))

commonWords == {
    "the", "a", "an", "and", "or", "but", "in", "on", "at", "to", "for", "of", "with",
    "by", "is", "are", "was", "were", "be", "been", "have", "has", "had", "do", "does",
    "did", "will", "would", "could", "should", "can", "may", "might", "i", "you", "he",
    "she", "it", "we", "they", "this", "that", "these", "those" }

\* /^[a-zA-Z]+$/.test(word)
IsAlphabetic(word) ==
  /\ Len(word) > 0
  /\ \A i \in 1..Len(word) :
       \E j \in 1..26 : CharAt(word, i) \in {LowerLetters[j], UpperLetters[j]}

RECURSIVE SignificantWords(_)
SignificantWords(words) ==
  IF words = <<>> THEN <<>>
  ELSE (IF Len(Head(words)) > 3 /\ Head(words) \notin commonWords /\ IsAlphabetic(Head(words))
        THEN <<Head(words)>> ELSE <<>>) \o SignificantWords(Tail(words))

\* [...new Set(q)]: the first occurrences, in order
RECURSIVE Dedupe(_)
Dedupe(q) ==
  IF q = <<>> THEN <<>>
  ELSE LET front == Dedupe(SubSeq(q, 1, Len(q) - 1))
           last == q[Len(q)]
       IN IF \E i \in 1..Len(front) : front[i] = last THEN front ELSE Append(front, last)

extractKeyTopics(content, words) == Slice0(Dedupe(Slice0(SignificantWords(words), 8)), 5)

actionVerbs == <<
    "complete", "finish", "send", "provide", "schedule", "call", "email", "review",
    "update", "prepare", "submit", "deliver" >>

HasActionVerb(sentence) ==
  \E i \in 1..Len(actionVerbs) : Includes(ToLowerCase(sentence), actionVerbs[i])

\* sentence.trim().substring(0, 80) + (sentence.length > 80 ? '...' : '')
ActionText(sentence) ==
  Substring0(Trim(sentence), 80) \o (IF Len(sentence) > 80 THEN "..." ELSE "")

RECURSIVE ActionsOf(_)
ActionsOf(sentences) ==
  IF sentences = <<>> THEN <<>>
  ELSE (IF HasActionVerb(Head(sentences)) THEN <<ActionText(Head(sentences))>> ELSE <<>>)
       \o ActionsOf(Tail(sentences))

extractActionItemsLocal(content) == Slice0(ActionsOf(Split(content, {".", "!", "?"})), 3)

esCommonWords == <<
    "el", "la", "de", "que", "y", "a", "en", "un", "es", "se", "no", "te", "lo", "le",
    "da", "su", "por", "son", "con", "para", "está", "como", "muy", "pero", "todo",
    "esta", "una" >>

frCommonWords == <<
    "le", "de", "et", "à", "un", "il", "être", "et", "en", "avoir", "que", "pour",
    "dans", "ce", "son", "une", "sur", "avec", "ne", "se", "pas", "tout", "plus",
    "par", "grand", "quand", "même", "lui", "bien", "où" >>

deCommonWords == <<
    "der", "die", "und", "in", "den", "von", "zu", "das", "mit", "sich", "des", "auf",
    "für", "ist", "im", "dem", "nicht", "ein", "eine", "als", "auch", "es", "an",
    "werden", "aus", "er", "hat", "dass", "sie", "nach" >>

languages == <<
    [lang |-> "es", commonWords |-> esCommonWords],
    [lang |-> "fr", commonWords |-> frCommonWords],
    [lang |-> "de", commonWords |-> deCommonWords] >>

\* words.filter(word => commonWords.includes(word)).length
WordScore(words, common) ==
  Cardinality({i \in 1..Len(words) : \E j \in 1..Len(common) : common[j] = words[i]})

RECURSIVE DetectLanguageFrom(_, _, _, _)
DetectLanguageFrom(words, i, maxScore, detectedLang) ==
  IF i > Len(languages) THEN detectedLang
  ELSE LET score == WordScore(words, languages[i].commonWords) IN
       IF score > maxScore
       THEN DetectLanguageFrom(words, i + 1, score, languages[i].lang)
       ELSE DetectLanguageFrom(words, i + 1, maxScore, detectedLang)

detectLanguageLocal(content) ==
  DetectLanguageFrom(Split(ToLowerCase(content), Whitespace), 1, 0, "en")

generateSummary(originalContent, category, priority) ==
  CASE category = "urgent" -> "Urgent " \o priority \o " priority message requiring immediate attention"
    [] category = "support" -> "Support request with " \o priority \o " priority requiring assistance"
    [] category = "sales" -> "Sales-related inquiry with " \o priority \o " priority"
    [] category = "meeting" -> "Meeting or scheduling request with " \o priority \o " priority"
    [] category = "report" -> "Report or status update with " \o priority \o " priority"
    [] category = "complaint" -> "Customer complaint requiring " \o priority \o " priority response"
    [] OTHER -> "General correspondence with " \o priority \o " priority"

\* analysis_confidence: 0.85, in hundredths
LocalConfidence == 85

performLocalAnalysis(emailContent) ==
  LET content == ToLowerCase(emailContent)
      words == Split(content, Whitespace)
      category == detectCategory(content)
      priority == detectPriority(content, words)
      sentiment == detectSentiment(content)
  IN [category |-> category,
      priority |-> priority,
      sentiment |-> sentiment,
      key_topics |-> extractKeyTopics(content, words),
      action_items |-> extractActionItemsLocal(content),
      summary |-> generateSummary(emailContent, category, priority),
      requires_human_review |->
        (priority = "high" \/ category = "urgent" \/ sentiment = "negative"),
      detected_language |-> detectLanguageLocal(content),
      urgency_score |-> calculateUrgencyScore(content),
      word_count |-> Len(words),
      analysis_confidence |-> LocalConfidence]

\* extractAnalysisFromText: analyses the original content, not the generated text
extractAnalysisFromText(originalEmailContent) == performLocalAnalysis(originalEmailContent)

(***************************************************************************)
(* Values exchanged with the provider services.                            *)
(***************************************************************************)

NoValue == [none |-> TRUE]

\* how an async method settles: it returns a value or throws an Error
Returned(v) == [kind |-> "return", value |-> v]
Raised(msg) == [kind |-> "raise", value |-> [message |-> msg]]
\* the method has issued its request to the remote vendor and awaits the answer
Pending == [kind |-> "pending", value |-> NoValue]
NoOutcome == [kind |-> "none", value |-> NoValue]

\* What a remote vendor answers to one request: the SDK call rejects ("raise"),
\* or it resolves with a text that is a JSON document ("json"), a text with a
\* JSON object inside prose ("embedded"), or a text without any JSON ("text").
RemoteAnalyses ==
  {[category |-> c, priority |-> p, sentiment |-> s] :
      c \in {"urgent", "general"}, p \in {"high", "medium"}, s \in {"negative", "neutral"}}
  \cup
  {[category |-> c, priority |-> p, sentiment |-> s, requires_human_review |-> r] :
      c \in {"urgent", "general"}, p \in {"high", "medium"},
      s \in {"negative", "neutral"}, r \in BOOLEAN}

RemoteActionData ==
  {[action_items |-> <<>>, has_deadlines |-> FALSE, urgent_items |-> <<>>],
   [action_items |-> <<[task |-> "send report", deadline |-> "none",
                        priority |-> "high", assignee |-> "unspecified"]>>,
    has_deadlines |-> FALSE, urgent_items |-> <<"send report">>]}

RemoteSummaries == {[summary |-> "thread summary", thread_length |-> 2]}

RemotePayloads(method) ==
  CASE method = "analyzeEmail" -> RemoteAnalyses
    [] method = "extractActionItems" -> RemoteActionData
    [] method = "summarizeEmailThread" -> RemoteSummaries
    [] OTHER -> {}

Responses(method) ==
  {[kind |-> "raise", body |-> [message |-> "request failed"]],
   [kind |-> "text", body |-> [text |-> " generated text "]]}
  \cup {[kind |-> k, body |-> b] : k \in {"json", "embedded"}, b \in RemotePayloads(method)}

\* the text of an answer
RawText(resp) ==
  CASE resp.kind = "text" -> resp.body.text
    [] resp.kind = "json" -> "{json}"
    [] OTHER -> "Here is the result: {json}"

(***************************************************************************)
(* OpenAIService (core/openaiService.js).                                  *)
(***************************************************************************)

\* constructor: enabled = !!process.env.OPENAI_API_KEY
OpenAIService(e) == [cls |-> "OpenAIService", enabled |-> e.OPENAI_API_KEY]

\* analyzeEmail from the answer of client.chat.completions.create on:
\* JSON.parse of the trimmed content; the catch block rethrows
OpenAI_analyzeEmail(resp) ==
  CASE resp.kind = "raise" -> Raised(resp.body.message)
    [] resp.kind = "json" ->
         Returned([success |-> TRUE, analysis |-> resp.body,
                   model_used |-> "gpt-4o-mini", provider |-> "openai"])
    [] OTHER -> Raised("Unexpected token in JSON")

OpenAI_generateEmailResponse(resp) ==
  IF resp.kind = "raise" THEN Raised(resp.body.message)
  ELSE Returned([success |-> TRUE, response |-> Trim(RawText(resp)),
                 model_used |-> "gpt-4o-mini", provider |-> "openai"])

OpenAI_extractActionItems(resp) ==
  CASE resp.kind = "raise" -> Raised(resp.body.message)
    [] resp.kind = "json" ->
         Returned([success |-> TRUE, data |-> resp.body,
                   model_used |-> "gpt-4o-mini", provider |-> "openai"])
    [] OTHER -> Raised("Unexpected token in JSON")

OpenAI_summarizeEmailThread(resp) ==
  CASE resp.kind = "raise" -> Raised(resp.body.message)
    [] resp.kind = "json" ->
         Returned([success |-> TRUE, summary |-> resp.body,
                   model_used |-> "gpt-4o-mini", provider |-> "openai"])
    [] OTHER -> Raised("Unexpected token in JSON")

(***************************************************************************)
(* HuggingFaceAIService (core/huggingfaceService.js).                      *)
(***************************************************************************)

\* constructor(apiToken): disabled when no token is passed
HuggingFaceAIService(apiToken) == [cls |-> "HuggingFaceAIService", enabled |-> apiToken]

\* the result of the local action item extraction (both local branches)
HF_localActionItems(emailContent) ==
  LET localActions == extractActionItemsLocal(ToLowerCase(emailContent))
      IsUrgent(a) == \/ Includes(ToLowerCase(a), "urgent")
                     \/ Includes(ToLowerCase(a), "asap")
                     \/ Includes(ToLowerCase(a), "immediate")
  IN [success |-> TRUE,
      data |-> [action_items |->
                  [i \in 1..Len(localActions) |->
                     [task |-> localActions[i], deadline |-> "none",
                      priority |-> "medium", assignee |-> "unspecified"]],
                has_deadlines |-> FALSE,
                urgent_items |->
                  LET RECURSIVE Urgent(_)
                      Urgent(q) == IF q = <<>> THEN <<>>
                                   ELSE (IF IsUrgent(Head(q)) THEN <<Head(q)>> ELSE <<>>)
                                        \o Urgent(Tail(q))
                  IN Urgent(localActions)],
      model_used |-> "local-intelligent-analysis",
      provider |-> "local"]

\* generateLocalResponse: the intent, then the template for (intent, tone); a
\* template is named "<intent>/<tone>" here instead of spelling its text
generateLocalResponse(originalEmail, tone) ==
  LET email == ToLowerCase(originalEmail)
      responseType ==
        IF Includes(email, "meeting") \/ Includes(email, "schedule")
           \/ Includes(email, "appointment") THEN "meeting"
        ELSE IF Includes(email, "thank") \/ Includes(email, "thanks") THEN "thanks"
        ELSE IF Includes(email, "question") \/ Includes(email, "help")
                \/ Includes(email, "?") THEN "question"
        ELSE IF Includes(email, "request") \/ Includes(email, "please") THEN "request"
        ELSE IF Includes(email, "complaint") \/ Includes(email, "problem")
                \/ Includes(email, "issue") THEN "complaint"
        ELSE "general"
  IN IF tone \in {"professional", "friendly", "formal"}
     THEN responseType \o "/" \o tone
     ELSE "general/professional"

HF_analyzeEmail(emailContent, resp) ==
  CASE resp.kind = "raise" ->
         Returned([success |-> TRUE, analysis |-> performLocalAnalysis(emailContent),
                   model_used |-> "local-intelligent-analysis", provider |-> "local"])
    [] resp.kind \in {"json", "embedded"} ->
         Returned([success |-> TRUE, analysis |-> resp.body,
                   model_used |-> "gpt2", provider |-> "huggingface"])
    [] OTHER ->
         Returned([success |-> TRUE, analysis |-> extractAnalysisFromText(emailContent),
                   model_used |-> "gpt2", provider |-> "huggingface"])

HF_generateEmailResponse(originalEmail, tone, resp) ==
  IF resp.kind = "raise"
  THEN Returned([success |-> TRUE, response |-> generateLocalResponse(originalEmail, tone),
                 model_used |-> "local-intelligent-generation", provider |-> "local"])
  ELSE Returned([success |-> TRUE, response |-> Trim(RawText(resp)),
                 model_used |-> "gpt2", provider |-> "huggingface"])

HF_extractActionItems(emailContent, resp) ==
  CASE resp.kind = "raise" -> Returned(HF_localActionItems(emailContent))
    [] resp.kind \in {"json", "embedded"} ->
         Returned([success |-> TRUE, data |-> resp.body,
                   model_used |-> "gpt2", provider |-> "huggingface"])
    [] OTHER ->
         Returned([success |-> TRUE,
                   data |-> [action_items |-> <<>>, has_deadlines |-> FALSE,
                             urgent_items |-> <<>>],
                   model_used |-> "gpt2", provider |-> "huggingface"])

HF_summarizeEmailThread(resp) ==
  IF resp.kind = "raise"
  THEN Returned([success |-> FALSE, error |-> resp.body.message])
  ELSE Returned([success |-> TRUE, summary |-> RawText(resp),
                 model_used |-> "gpt2", provider |-> "huggingface"])

(***************************************************************************)
(* ClaudeAIService (core/aiService.js).                                    *)
(***************************************************************************)

\* constructor(apiKey): disabled when no key is passed
ClaudeAIService(apiKey) == [cls |-> "ClaudeAIService", enabled |-> apiKey]

Claude_analyzeEmail(resp) ==
  CASE resp.kind = "raise" ->
         Returned([success |-> FALSE, error |-> resp.body.message,
                   fallback_analysis |->
                     [category |-> "general", priority |-> "medium",
                      sentiment |-> "neutral", summary |-> "AI analysis unavailable"]])
    [] resp.kind = "json" ->
         Returned([success |-> TRUE, analysis |-> resp.body,
                   model_used |-> "claude-3-5-sonnet-20241022"])
    [] OTHER ->
         Returned([success |-> TRUE,
                   analysis |-> [raw_analysis |-> RawText(resp), category |-> "general",
                                 priority |-> "medium", sentiment |-> "neutral"],
                   model_used |-> "claude-3-5-sonnet-20241022"])

Claude_generateEmailResponse(resp) ==
  IF resp.kind = "raise"
  THEN Returned([success |-> FALSE, error |-> resp.body.message])
  ELSE Returned([success |-> TRUE, response |-> Trim(RawText(resp)),
                 model_used |-> "claude-3-5-sonnet-20241022"])

Claude_extractActionItems(resp) ==
  CASE resp.kind = "raise" ->
         Returned([success |-> FALSE, error |-> resp.body.message,
                   fallback |-> [action_items |-> <<>>, has_deadlines |-> FALSE,
                                 urgent_items |-> <<>>]])
    [] resp.kind = "json" ->
         Returned([success |-> TRUE, data |-> resp.body,
                   model_used |-> "claude-3-5-sonnet-20241022"])
    [] OTHER ->
         Returned([success |-> FALSE, error |-> "Unexpected token in JSON",
                   fallback |-> [action_items |-> <<>>, has_deadlines |-> FALSE,
                                 urgent_items |-> <<>>]])

Claude_summarizeEmailThread(resp) ==
  IF resp.kind = "raise"
  THEN Returned([success |-> FALSE, error |-> resp.body.message])
  ELSE Returned([success |-> TRUE, summary |-> RawText(resp),
                 model_used |-> "claude-3-5-sonnet-20241022"])

(***************************************************************************)
(* A service method, split at its one await of the remote vendor.          *)
(***************************************************************************)

\* the method up to its remote request: the `if (!this.enabled)` prologue
AdapterBegin(svc, method, content) ==
  IF svc.enabled THEN Pending
  ELSE CASE svc.cls = "OpenAIService" ->
              Raised("OpenAI service is disabled - missing OPENAI_API_KEY")
         [] svc.cls = "ClaudeAIService" ->
              Raised("AI service is disabled - missing ANTHROPIC_API_KEY")
         [] OTHER ->
              IF method = "extractActionItems"
              THEN Returned(HF_localActionItems(content))
              ELSE Raised("Hugging Face AI service is disabled - missing HUGGINGFACE_API_TOKEN")

\* the method from the remote vendor's answer on
AdapterResume(svc, method, content, tone, resp) ==
  CASE svc.cls = "OpenAIService" ->
         (CASE method = "analyzeEmail" -> OpenAI_analyzeEmail(resp)
            [] method = "generateEmailResponse" -> OpenAI_generateEmailResponse(resp)
            [] method = "extractActionItems" -> OpenAI_extractActionItems(resp)
            [] OTHER -> OpenAI_summarizeEmailThread(resp))
    [] svc.cls = "ClaudeAIService" ->
         (CASE method = "analyzeEmail" -> Claude_analyzeEmail(resp)
            [] method = "generateEmailResponse" -> Claude_generateEmailResponse(resp)
            [] method = "extractActionItems" -> Claude_extractActionItems(resp)
            [] OTHER -> Claude_summarizeEmailThread(resp))
    [] OTHER ->
         (CASE method = "analyzeEmail" -> HF_analyzeEmail(content, resp)
            [] method = "generateEmailResponse" -> HF_generateEmailResponse(content, tone, resp)
            [] method = "extractActionItems" -> HF_extractActionItems(content, resp)
            [] OTHER -> HF_summarizeEmailThread(resp))

(***************************************************************************)
(* The orchestrator: api/routes/ai.js.                                     *)
(***************************************************************************)

NoService == [cls |-> "none", enabled |-> FALSE]

\* the environments the process can start in
Envs == [OPENAI_API_KEY : BOOLEAN, HUGGINGFACE_API_TOKEN : BOOLEAN, ANTHROPIC_API_KEY : BOOLEAN]

\* new HuggingFaceAIService(): ai.js passes no token to the constructor
NoToken == FALSE

\* ai.js 11-29: the provider chosen as primary
InitPrimaryAI(e) ==
  IF e.OPENAI_API_KEY THEN OpenAIService(e)
  ELSE IF e.HUGGINGFACE_API_TOKEN THEN HuggingFaceAIService(NoToken)
  ELSE IF e.ANTHROPIC_API_KEY THEN ClaudeAIService(e.ANTHROPIC_API_KEY)
  ELSE HuggingFaceAIService(NoToken)

\* ai.js 11-29: the provider chosen as fallback (null but in the OpenAI branch)
InitFallbackAI(e) ==
  IF e.OPENAI_API_KEY THEN HuggingFaceAIService(NoToken) ELSE NoService

Methods == {"analyzeEmail", "generateEmailResponse", "extractActionItems", "summarizeEmailThread"}

\* one entry of the call's log: an adapter's method was invoked ("call"), its
\* remote vendor answered ("remote"), the method returned ("ok") or threw ("fail")
Ev(e, who, out) == [ev |-> e, who |-> who, out |-> out]

SettleEv(who, out) == Ev(IF out.kind = "return" THEN "ok" ELSE "fail", who, out)

\* callWithFallback returns or throws out
Finish(out, lg) ==
  [pc |-> IF out.kind = "return" THEN "returned" ELSE "raised",
   awaiting |-> {}, log |-> lg, outcome |-> out]

\* callWithFallback is suspended in `await who[method](...args)`
Suspend(who, lg) ==
  [pc |-> "waiting", awaiting |-> {who}, log |-> lg, outcome |-> NoOutcome]

\* ai.js 42-47: the fallback's method has settled; its value is returned, its
\* error rethrown
FallbackSettled(out, lg) == Finish(out, Append(lg, SettleEv("fallback", out)))

\* ai.js 38-50: the catch block, entered with the primary's error
CatchPrimaryError(error, method, content, lg) ==
  IF fallbackAI # NoService
  THEN LET begun == AdapterBegin(fallbackAI, method, content)
           lg2 == Append(lg, Ev("call", "fallback", NoOutcome))
       IN IF begun.kind = "pending" THEN Suspend("fallback", lg2)
          ELSE FallbackSettled(begun, lg2)
  ELSE Finish(error, lg)

\* a faulty catch of the primary: the fallback is consulted whatever the primary
\* settled with, also when it returned
PrimarySettled_AlwaysFallback(out, method, content, lg) ==
  CatchPrimaryError(out, method, content, Append(lg, SettleEv("primary", out)))

\* ai.js 34-37: the primary's method has settled
PrimarySettled(out, method, content, lg) ==
  LET lg2 == Append(lg, SettleEv("primary", out))
  IN IF out.kind = "return" THEN Finish(out, lg2)
     ELSE CatchPrimaryError(out, method, content, lg2)

\* ai.js 33-58: callWithFallback up to its first suspension
callWithFallback(method, content) ==
  IF primaryAI # NoService /\ primaryAI.enabled
  THEN LET begun == AdapterBegin(primaryAI, method, content)
           lg == <<Ev("call", "primary", NoOutcome)>>
       IN IF begun.kind = "pending" THEN Suspend("primary", lg)
          ELSE PrimarySettled(begun, method, content, lg)
  ELSE IF fallbackAI # NoService
  THEN LET begun == AdapterBegin(fallbackAI, method, content)
           lg == <<Ev("call", "fallback", NoOutcome)>>
       IN IF begun.kind = "pending" THEN Suspend("fallback", lg)
          ELSE FallbackSettled(begun, lg)
  ELSE Finish(Raised("No AI services available"), <<>>)

\* the email texts and tones the model calls the orchestrator with
Contents == {"", "Please send the report today. Thanks!", "URGENT!!! call me asap about the problem"}
Tones == {"professional", "casual"}

Resume(k) ==
  /\ pc' = k.pc
  /\ awaiting' = k.awaiting
  /\ log' = k.log
  /\ outcome' = k.outcome

\* a route handler calls aiService[method](...)
Call(method, content, tone) ==
  /\ pc = "idle"
  /\ call' = [method |-> method, content |-> content, tone |-> tone]
  /\ Resume(callWithFallback(method, content))
  /\ UNCHANGED <<env, primaryAI, fallbackAI, silent>>
  /\ UNCHANGED <<wfVars, utilVars, apiVars, taskVars, limitVars, mailVars, multiVars>>

\* the remote vendor answers the outstanding request and the awaiting code runs on
RemoteResponds(who, resp) ==
  /\ pc = "waiting"
  /\ who \in awaiting
  /\ ~silent
  /\ LET svc == IF who = "primary" THEN primaryAI ELSE fallbackAI
         lg == Append(log, Ev("remote", who, [kind |-> resp.kind, value |-> resp.body]))
         out == AdapterResume(svc, call.method, call.content, call.tone, resp)
     IN Resume(IF who = "primary"
               THEN PrimarySettled(out, call.method, call.content, lg)
               ELSE FallbackSettled(out, lg))
  /\ UNCHANGED <<env, primaryAI, fallbackAI, call, silent>>
  /\ UNCHANGED <<wfVars, utilVars, apiVars, taskVars, limitVars, mailVars, multiVars>>

\* the remote vendor never answers the outstanding request
RemoteNeverResponds ==
  /\ pc = "waiting"
  /\ ~silent
  /\ silent' = TRUE
  /\ UNCHANGED <<env, primaryAI, fallbackAI, pc, call, awaiting, log, outcome>>
  /\ UNCHANGED <<wfVars, utilVars, apiVars, taskVars, limitVars, mailVars, multiVars>>

\* the route handler has its result; the next request may come
NextRequest ==
  /\ pc \in {"returned", "raised"}
  /\ pc' = "idle"
  /\ call' = [method |-> "none", content |-> "", tone |-> ""]
  /\ awaiting' = {}
  /\ log' = <<>>
  /\ outcome' = NoOutcome
  /\ UNCHANGED <<env, primaryAI, fallbackAI, silent>>
  /\ UNCHANGED <<wfVars, utilVars, apiVars, taskVars, limitVars, mailVars, multiVars>>

OrchInit ==
  /\ env \in Envs
  /\ primaryAI = InitPrimaryAI(env)
  /\ fallbackAI = InitFallbackAI(env)
  /\ pc = "idle"
  /\ call = [method |-> "none", content |-> "", tone |-> ""]
  /\ awaiting = {}
  /\ silent = FALSE
  /\ log = <<>>
  /\ outcome = NoOutcome

\* part_008 4-8: a workflow is constructed with its own mailbox client and
\* browser helper; nothing is connected or launched
WorkflowIdle ==
  /\ wpc = "idle"
  /\ now = 0
  /\ startTime = 0
  /\ maxWaitTime = 0
  /\ browser = FALSE
  /\ chrome = "none"
  /\ imap = "idle"
  /\ calls = <<>>
  /\ verificationEmail = <<>>
  /\ emails = <<>>
  /\ pending = NoOutcome
  /\ wresult = NoOutcome
  /\ failedStep = "none"
  /\ page = ""

\* no function has been applied
UtilIdle ==
  /\ applied = "none"
  /\ argument = [html |-> "", text |-> ""]
  /\ returned = <<>>

\* the server as tests/setup.js configures it, with no request received
ApiIdle ==
  /\ serverEnv = [NODE_ENV |-> "test", ENABLE_AUTH |-> "",
                  API_KEYS |-> "test-api-key,another-test-key", EMAIL_USER |-> TRUE]
  /\ req = [route |-> "none"]
  /\ status = 0
  /\ reached = <<>>

\* no verify-email request has been received
TaskIdle ==
  /\ workflows = <<>>
  /\ imaps = <<>>
  /\ browsers = <<>>

\* a window of the limiters has begun and no request has arrived in it
LimitIdle ==
  /\ ipStore = <<>>
  /\ handled = <<>>
  /\ answered = 0

\* an empty mailbox, and no call on the mailbox client
MailIdle ==
  /\ inbox = <<>>
  /\ query = [fn |-> "none", limit |-> 0, offset |-> 0]
  /\ fetched = <<>>
  /\ msgs = <<>>
  /\ fetchedEmails = <<>>
  /\ resolved = NoOutcome

\* a MultiAIService without any provider key, and no call on it
MultiIdle ==
  /\ multiEnv = [GROQ_API_KEY |-> FALSE, OPENAI_API_KEY |-> FALSE,
                 ANTHROPIC_API_KEY |-> FALSE, GEMINI_API_KEY |-> FALSE]
  /\ enabledProviders = <<>>
  /\ analysis = [pc |-> "idle", analysisType |-> ""]
  /\ attempted = <<>>
  /\ multiResult = NoOutcome

Init == OrchInit /\ WorkflowIdle /\ MultiIdle /\ MailIdle /\ LimitIdle /\ TaskIdle /\ UtilIdle /\ ApiIdle

Next ==
  \/ \E m \in Methods, c \in Contents, t \in Tones : Call(m, c, t)
  \/ \E w \in {"primary", "fallback"} : \E r \in Responses(call.method) : RemoteResponds(w, r)
  \/ RemoteNeverResponds
  \/ NextRequest

Spec == Init /\ [][Next]_vars

\* the step of RemoteResponds, seen from outside: the call stops waiting for
\* the adapter it was waiting for
RemoteAnswered ==
  /\ pc = "waiting"
  /\ ~silent
  /\ pc' \in {"waiting", "returned", "raised"}
  /\ awaiting' \in SUBSET {"primary", "fallback"}
  /\ <<pc', awaiting'>> # <<pc, awaiting>>

\* a remote vendor that has not gone silent answers, and the event loop then
\* resumes the awaiting code: what is left to chance is only that a vendor
\* stays silent
FairSpec == Spec /\ WF_<<pc, awaiting>>(RemoteAnswered)

(***************************************************************************)
(* HostingerEmailClient.extractVerificationLinks (core/emailClient.js).    *)
(***************************************************************************)

\* the characters the link pattern's classes [^\s<>"] exclude
LinkDelimiters == Whitespace \cup {"<", ">", "\""}

\* (?:verify|confirm|activate)
LinkMarkers == <<"verify", "confirm", "activate">>

\* SubSeq that stops at the end of the text
Clip(s, i, j) == SubSeq(s, i, Min(j, Len(s)))

\* https?:\/\/ matched at position i, case-insensitively: its length, 0 if none
SchemeAt(s, i) ==
  IF ToLowerCase(Clip(s, i, i + 6)) = "http://" THEN 7
  ELSE IF ToLowerCase(Clip(s, i, i + 7)) = "https://" THEN 8
  ELSE 0

\* the last position of the run of non-delimiter characters that starts at i
\* (i - 1 when the run is empty)
RunEnd(s, i) ==
  LET stops == {p \in i..Len(s) : CharAt(s, p) \in LinkDelimiters}
  IN IF stops = {} THEN Max(Len(s), i - 1)
     ELSE (CHOOSE p \in stops : \A q \in stops : p <= q) - 1

\* [^\s<>"]+(?:verify|confirm|activate) can be matched inside the run from..to:
\* a marker with at least one character of the run before it
MarkerInRun(s, from, to) ==
  \E k \in 1..Len(LinkMarkers) :
    \E p \in (from + 1)..(to - Len(LinkMarkers[k]) + 1) :
      ToLowerCase(SubSeq(s, p, p + Len(LinkMarkers[k]) - 1)) = LinkMarkers[k]

\* String.prototype.match with the g flag: the matches from position i on,
\* leftmost first, each as long as the trailing class allows
RECURSIVE LinksFrom(_, _)
LinksFrom(s, i) ==
  LET MatchesAt(p) == /\ SchemeAt(s, p) > 0
                      /\ MarkerInRun(s, p + SchemeAt(s, p), RunEnd(s, p + SchemeAt(s, p)))
      hits == {p \in i..Len(s) : MatchesAt(p)}
  IN IF hits = {} THEN <<>>
     ELSE LET p == CHOOSE p \in hits : \A q \in hits : p <= q
              e == RunEnd(s, p + SchemeAt(s, p))
          IN <<SubSeq(s, p, e)>> \o LinksFrom(s, e + 1)

\* the extractor with the parts taken the other way round, as
\* extractVerificationCode takes them: the text part first
extractVerificationLinks_TextFirst(emailContent) ==
  LET htmlContent == IF emailContent.text # "" THEN emailContent.text ELSE emailContent.html
  IN LinksFrom(htmlContent, 1)

\* an absent html or text part is the empty string
extractVerificationLinks(emailContent) ==
  LET htmlContent == IF emailContent.html # "" THEN emailContent.html ELSE emailContent.text
  IN LinksFrom(htmlContent, 1)

(***************************************************************************)
(* HostingerEmailClient.extractVerificationCode (core/emailClient.js).     *)
(* codeRegex = /(?:code|token|otp)\s*(?:is)?\s*:?\s*([A-Z0-9]{4,8})/i       *)
(***************************************************************************)

\* (?:code|token|otp)
CodeMarkers == <<"code", "token", "otp">>

Digits == {"0", "1", "2", "3", "4", "5", "6", "7", "8", "9"}

\* [A-Z0-9] under the i flag: a letter of either case or a digit
IsCodeChar(c) ==
  \/ c \in Digits
  \/ \E k \in 1..Len(LowerLetters) : LowerChar(c) = LowerLetters[k]

\* the length of the marker matched at position i, 0 if none is
CodeMarkerAt(s, i) ==
  IF \E k \in 1..Len(CodeMarkers) :
       ToLowerCase(Clip(s, i, i + Len(CodeMarkers[k]) - 1)) = CodeMarkers[k]
  THEN Len(CodeMarkers[CHOOSE k \in 1..Len(CodeMarkers) :
             ToLowerCase(Clip(s, i, i + Len(CodeMarkers[k]) - 1)) = CodeMarkers[k]])
  ELSE 0

\* \s* from position i: the position of the first character that is not
\* whitespace (Len(s) + 1 at the end of the text)
RECURSIVE SkipWhitespace(_, _)
SkipWhitespace(s, i) ==
  IF i <= Len(s) /\ CharAt(s, i) \in Whitespace THEN SkipWhitespace(s, i + 1) ELSE i

\* how many characters of [A-Z0-9] stand at position i and after it
RECURSIVE CodeRun(_, _)
CodeRun(s, i) ==
  IF i <= Len(s) /\ IsCodeChar(CharAt(s, i)) THEN 1 + CodeRun(s, i + 1) ELSE 0

\* \s*:?\s*([A-Z0-9]{4,8}) matched from position i: the capture, <<>> if none.
\* The quantifiers are greedy: a colon that is there is taken, and the capture
\* takes up to 8 characters.
CaptureFrom(s, i) ==
  LET j == SkipWhitespace(s, i)
      k == IF j <= Len(s) /\ CharAt(s, j) = ":" THEN SkipWhitespace(s, j + 1) ELSE j
      n == CodeRun(s, k)
  IN IF n >= 4 THEN <<SubSeq(s, k, k + Min(n, 8) - 1)>> ELSE <<>>

\* the pattern after its marker, from position i: (?:is)? is tried with "is"
\* first and without it when that fails
CodeAfterMarker(s, i) ==
  LET j == SkipWhitespace(s, i)
      withIs == IF ToLowerCase(Clip(s, j, j + 1)) = "is" THEN CaptureFrom(s, j + 2) ELSE <<>>
  IN IF withIs # <<>> THEN withIs ELSE CaptureFrom(s, j)

\* codeRegex.exec(content): the capture of the leftmost match from position i
\* on, <<>> when there is none (null)
CodeFrom(s, i) ==
  LET MatchesAt(p) == /\ CodeMarkerAt(s, p) > 0
                      /\ CodeAfterMarker(s, p + CodeMarkerAt(s, p)) # <<>>
      hits == {p \in i..Len(s) : MatchesAt(p)}
  IN IF hits = {} THEN <<>>
     ELSE LET p == CHOOSE p \in hits : \A q \in hits : p <= q
          IN CodeAfterMarker(s, p + CodeMarkerAt(s, p))

\* match ? match[1] : null, as <<match[1]>> or <<>>; an absent text or html
\* part is the empty string
extractVerificationCode(emailContent) ==
  LET content == IF emailContent.text # "" THEN emailContent.text ELSE emailContent.html
  IN CodeFrom(content, 1)

(***************************************************************************)
(* EmailVerificationWorkflow (automation/emailVerification.js), over the   *)
(* HostingerEmailClient and the PuppeteerHelper it constructs.             *)
(***************************************************************************)

\* if (emailAge < 300000)
FreshnessWindow == 300000

\* setTimeout(resolve, 5000)
PollInterval == 5000

\* the longest a mailbox query takes, in ms
SlowQuery == 6000

\* the longest wait a caller asks for, in ms
LongestWait == 10000

\* the maxWaitTime arguments
MaxWaitTimes == {-1, 0, PollInterval, LongestWait}

\* how long a mailbox query takes
QueryDurations == {0, 1, SlowQuery}

\* how long the timer of a pause takes to fire
SleepDurations == {PollInterval, PollInterval + 1}

\* how old the latest message of the sender is when the query's answer is read
MessageAges == {FreshnessWindow - 1, FreshnessWindow, FreshnessWindow + 1}

\* the html and text parts of the sender's latest message
MailContents ==
  {[html |-> "<a href=\"https://shop.test/Verify?t=1\">Verify</a>",
    text |-> "Go to https://shop.test/confirm/9"],
   [html |-> "", text |-> "Open https://shop.test/activate/ab now"],
   [html |-> "<p>Welcome</p>", text |-> "Open https://shop.test/verify/7"],
   [html |-> "", text |-> "Your code is: AB12CD"]}

\* what getLatestFromSender(senderEmail, 1) settles with, read at time t
QueryResults(t) ==
  {Raised("Not authenticated"), Returned(<<>>)}
  \cup {Returned(<<[date |-> t - a, html |-> c.html, text |-> c.text]>>) :
          a \in MessageAges, c \in MailContents}

\* the text of .verification-success
SuccessTexts == {"Email verified", "Your address is confirmed"}

\* a faulty freshness test: the edge of the window counts as fresh
IsFresh_Inclusive(emailAge) == emailAge <= FreshnessWindow

\* part_008 49-50: the freshness test on emailAge = Date.now() - date
IsFresh(emailAge) == emailAge < FreshnessWindow

\* part_008 61-66: cleanup() runs in the finally block, with the return value
\* or the error the try/catch settled with. It is suspended in close() when a
\* browser was launched; otherwise it disconnects and the call settles.
cleanup(settled) ==
  IF browser
  THEN /\ wpc' = "closing"
       /\ calls' = Append(calls, "close")
       /\ pending' = settled
       /\ UNCHANGED <<imap, wresult>>
  ELSE /\ wpc' = "done"
       /\ calls' = Append(calls, "disconnect")
       /\ imap' = "ended"
       /\ pending' = NoOutcome
       /\ wresult' = settled

\* part_008 34-36: the catch block wraps the message of whatever was thrown
catch(step, message) ==
  /\ failedStep' = step
  /\ cleanup(Raised("Verification workflow failed: " \o message))

\* a faulty loop head: the loop goes on while the elapsed time has not passed
\* maxWaitTime, so it still polls when the two are equal
waitForVerificationEmail_Inclusive(t, connection) ==
  IF t - startTime' <= maxWaitTime
  THEN /\ wpc' = "polling"
       /\ calls' = Append(calls, "getLatestFromSender")
       /\ imap' = connection
       /\ UNCHANGED <<pending, wresult, failedStep>>
  ELSE catch("timeout", "Verification email not received within timeout")

\* part_008 45-58: the head of the polling loop, reached at time t with the
\* mailbox connection in state connection
waitForVerificationEmail(t, connection) ==
  IF t - startTime' < maxWaitTime
  THEN /\ wpc' = "polling"
       /\ calls' = Append(calls, "getLatestFromSender")
       /\ imap' = connection
       /\ UNCHANGED <<pending, wresult, failedStep>>
  ELSE catch("timeout", "Verification email not received within timeout")

\* part_008 10-13: the call starts and awaits emailClient.connect()
executeVerificationWorkflow(maxWait) ==
  /\ wpc = "idle"
  /\ wpc' = "connecting"
  /\ maxWaitTime' = maxWait
  /\ calls' = Append(calls, "connect")
  /\ UNCHANGED <<now, startTime, browser, chrome, imap, verificationEmail, emails, pending, wresult, failedStep>>
  /\ UNCHANGED <<page, orchVars, utilVars, apiVars, taskVars, limitVars, mailVars, multiVars>>

\* connect() settles after d ms; on success waitForVerificationEmail starts
Connected(ok, d) ==
  /\ wpc = "connecting"
  /\ now' = now + d
  /\ startTime' = IF ok THEN now' ELSE startTime
  /\ IF ok
     THEN waitForVerificationEmail(now', "connected")
     ELSE catch("connect", "connect ECONNREFUSED")
  /\ UNCHANGED <<maxWaitTime, browser, chrome, verificationEmail, emails>>
  /\ UNCHANGED <<page, orchVars, utilVars, apiVars, taskVars, limitVars, mailVars, multiVars>>

\* a faulty step: a fresh message without a link is treated like a stale one,
\* and the loop pauses and polls again
Polled_RetryWithoutLink(d, res) ==
  /\ wpc = "polling"
  /\ now' = now + d
  /\ IF res.kind = "raise"
     THEN /\ catch("poll", res.value.message)
          /\ UNCHANGED <<verificationEmail, emails>>
     ELSE /\ emails' = res.value
          /\ IF Len(emails') > 0 /\ IsFresh(now' - emails'[1].date)
             THEN /\ verificationEmail' = <<emails'[1]>>
                  /\ IF Len(extractVerificationLinks(emails'[1])) = 0
                     THEN /\ wpc' = "sleeping"
                          /\ calls' = Append(calls, "setTimeout")
                          /\ UNCHANGED <<imap, pending, wresult, failedStep>>
                     ELSE /\ wpc' = "launching"
                          /\ calls' = Append(calls, "initialize")
                          /\ UNCHANGED <<imap, pending, wresult, failedStep>>
             ELSE /\ wpc' = "sleeping"
                  /\ calls' = Append(calls, "setTimeout")
                  /\ UNCHANGED <<verificationEmail, imap, pending, wresult, failedStep>>
  /\ UNCHANGED <<startTime, maxWaitTime, browser, chrome>>
  /\ UNCHANGED <<page, orchVars, utilVars, apiVars, taskVars, limitVars, mailVars, multiVars>>

\* a faulty loop: after a stale or missing message the loop reads its
\* condition again at once, without the pause
Polled_NoPause(d, res) ==
  /\ wpc = "polling"
  /\ now' = now + d
  /\ UNCHANGED startTime
  /\ IF res.kind = "raise"
     THEN /\ catch("poll", res.value.message)
          /\ UNCHANGED <<verificationEmail, emails>>
     ELSE /\ emails' = res.value
          /\ IF Len(emails') > 0 /\ IsFresh(now' - emails'[1].date)
             THEN /\ verificationEmail' = <<emails'[1]>>
                  /\ IF Len(extractVerificationLinks(emails'[1])) = 0
                     THEN catch("link", "No verification links found")
                     ELSE /\ wpc' = "launching"
                          /\ calls' = Append(calls, "initialize")
                          /\ UNCHANGED <<imap, pending, wresult, failedStep>>
             ELSE /\ waitForVerificationEmail(now', imap)
                  /\ UNCHANGED verificationEmail
  /\ UNCHANGED <<maxWaitTime, browser, chrome>>
  /\ UNCHANGED <<page, orchVars, utilVars, apiVars, taskVars, limitVars, mailVars, multiVars>>

\* part_008 46-55 and 16-23: getLatestFromSender settles after d ms with res. A
\* fresh message is returned to executeVerificationWorkflow, which extracts its
\* links and launches the browser; otherwise the loop pauses.
Polled(d, res) ==
  /\ wpc = "polling"
  /\ now' = now + d
  /\ IF res.kind = "raise"
     THEN /\ catch("poll", res.value.message)
          /\ UNCHANGED <<verificationEmail, emails>>
     ELSE /\ emails' = res.value
          /\ IF Len(emails') > 0 /\ IsFresh(now' - emails'[1].date)
             THEN /\ verificationEmail' = <<emails'[1]>>
                  /\ IF Len(extractVerificationLinks(emails'[1])) = 0
                     THEN catch("link", "No verification links found")
                     ELSE /\ wpc' = "launching"
                          /\ calls' = Append(calls, "initialize")
                          /\ UNCHANGED <<imap, pending, wresult, failedStep>>
             ELSE /\ wpc' = "sleeping"
                  /\ calls' = Append(calls, "setTimeout")
                  /\ UNCHANGED <<verificationEmail, imap, pending, wresult, failedStep>>
  /\ UNCHANGED <<startTime, maxWaitTime, browser, chrome>>
  /\ UNCHANGED <<page, orchVars, utilVars, apiVars, taskVars, limitVars, mailVars, multiVars>>

\* a faulty pause: the timer's callback never resolves the promise the loop
\* awaits, so the pause never ends
Slept_Unresolved(d) ==
  /\ wpc = "sleeping"
  /\ FALSE
  /\ UNCHANGED vars

\* part_008 55: the pause ends after d ms and the loop condition is read again
Slept(d) ==
  /\ wpc = "sleeping"
  /\ now' = now + d
  /\ UNCHANGED startTime
  /\ waitForVerificationEmail(now', imap)
  /\ UNCHANGED <<maxWaitTime, browser, chrome, verificationEmail, emails>>
  /\ UNCHANGED <<page, orchVars, utilVars, apiVars, taskVars, limitVars, mailVars, multiVars>>

\* puppeteerHelper.js 9-30 and part_008 25-26: puppeteer.launch settles
Launched(ok) ==
  /\ wpc = "launching"
  /\ IF ok
     THEN /\ browser' = TRUE
          /\ chrome' = "open"
          /\ wpc' = "navigating"
          /\ calls' = Append(calls, "navigateToVerification")
          /\ UNCHANGED <<imap, pending, wresult, failedStep>>
     ELSE /\ catch("launch", "Failed to launch the browser process")
          /\ UNCHANGED <<browser, chrome>>
  /\ UNCHANGED <<now, startTime, maxWaitTime, verificationEmail, emails>>
  /\ UNCHANGED <<page, orchVars, utilVars, apiVars, taskVars, limitVars, mailVars, multiVars>>

\* puppeteerHelper.js 32-36 and part_008 26-28: newPage and goto settle
Navigated(ok) ==
  /\ wpc = "navigating"
  /\ IF ok
     THEN /\ wpc' = "verifying"
          /\ calls' = Append(calls, "waitForVerificationComplete")
          /\ UNCHANGED <<imap, pending, wresult, failedStep>>
     ELSE catch("navigate", "net::ERR_CONNECTION_REFUSED")
  /\ UNCHANGED <<now, startTime, maxWaitTime, browser, chrome, verificationEmail, emails>>
  /\ UNCHANGED <<page, orchVars, utilVars, apiVars, taskVars, limitVars, mailVars, multiVars>>

\* a faulty wait: the rejection of waitForSelector is swallowed, and the call
\* goes on as if the marker had appeared
VerificationComplete_Unobserved(ok, text) ==
  /\ wpc = "verifying"
  /\ page' = IF ok THEN text ELSE ""
  /\ cleanup(Returned([success |-> TRUE, result |-> text]))
  /\ UNCHANGED failedStep
  /\ UNCHANGED <<now, startTime, maxWaitTime, browser, chrome, verificationEmail, emails>>
  /\ UNCHANGED <<orchVars, utilVars, apiVars, taskVars, limitVars, mailVars, multiVars>>

\* puppeteerHelper.js 44-50 and part_008 28-33: the completion marker appears
\* and its text is returned, or waitForSelector times out
VerificationComplete(ok, text) ==
  /\ wpc = "verifying"
  /\ page' = IF ok THEN text ELSE ""
  /\ IF ok
     THEN /\ cleanup(Returned([success |-> TRUE, result |-> text]))
          /\ UNCHANGED failedStep
     ELSE catch("complete", "Waiting for selector .verification-success failed")
  /\ UNCHANGED <<now, startTime, maxWaitTime, browser, chrome, verificationEmail, emails>>
  /\ UNCHANGED <<orchVars, utilVars, apiVars, taskVars, limitVars, mailVars, multiVars>>

\* puppeteerHelper.js 52-56 and part_008 63-65: browser.close() settles. When it
\* rejects, cleanup() rejects at once and its error leaves the finally block
\* in place of what the try/catch settled with.
Closed(ok) ==
  /\ wpc = "closing"
  /\ wpc' = "done"
  /\ pending' = NoOutcome
  /\ IF ok
     THEN /\ chrome' = "closed"
          /\ calls' = Append(calls, "disconnect")
          /\ imap' = "ended"
          /\ wresult' = pending
     ELSE /\ wresult' = Raised("Protocol error (Browser.close): Target closed")
          /\ UNCHANGED <<chrome, calls, imap>>
  /\ UNCHANGED <<now, startTime, maxWaitTime, browser, verificationEmail, emails, failedStep>>
  /\ UNCHANGED <<page, orchVars, utilVars, apiVars, taskVars, limitVars, mailVars, multiVars>>

\* the orchestrator at rest
OrchIdle ==
  /\ env = [OPENAI_API_KEY |-> FALSE, HUGGINGFACE_API_TOKEN |-> FALSE, ANTHROPIC_API_KEY |-> FALSE]
  /\ primaryAI = InitPrimaryAI(env)
  /\ fallbackAI = InitFallbackAI(env)
  /\ pc = "idle"
  /\ call = [method |-> "none", content |-> "", tone |-> ""]
  /\ awaiting = {}
  /\ silent = FALSE
  /\ log = <<>>
  /\ outcome = NoOutcome

WorkflowInit == OrchIdle /\ WorkflowIdle /\ MultiIdle /\ MailIdle /\ LimitIdle /\ TaskIdle /\ UtilIdle /\ ApiIdle

WorkflowNext ==
  \/ \E w \in MaxWaitTimes : executeVerificationWorkflow(w)
  \/ \E ok \in BOOLEAN, d \in QueryDurations : Connected(ok, d)
  \/ \E d \in QueryDurations : \E r \in QueryResults(now + d) : Polled(d, r)
  \/ \E d \in SleepDurations : Slept(d)
  \/ \E ok \in BOOLEAN : Launched(ok)
  \/ \E ok \in BOOLEAN : Navigated(ok)
  \/ \E ok \in BOOLEAN, t \in SuccessTexts : VerificationComplete(ok, t)
  \/ \E ok \in BOOLEAN : Closed(ok)

WorkflowSpec == WorkflowInit /\ [][WorkflowNext]_vars

\* a step of a run that has started: a call it awaits settles, or its timer fires
WorkflowSettles == wpc # "idle" /\ WorkflowNext

\* every call a run awaits on the mailbox or the browser settles, and the
\* timer of a pause fires: a run that can take a step eventually takes one
FairWorkflowSpec == WorkflowSpec /\ WF_vars(WorkflowSettles)

(***************************************************************************)
(* The pure functions applied to email content: the two extractors of      *)
(* HostingerEmailClient and the local analysis of HuggingFaceAIService.    *)
(***************************************************************************)

\* the contents the code extractor is applied to: a text made of an opening, a
\* marker word, what stands between the marker and the code, and the code; or
\* an html part only
CodeContents ==
  LET openings == {"Your ", "no ", ""}
      words == {"code", "CODE", "token", "otp", "pin"}
      joints == {" is: ", ": ", " is ", " ", ""}
      endings == {"AB12CD", "ab12cd", "123", "here", "ABCDEFGHIJ", "AB-12"}
      texts == {a \o w \o j \o e : a \in openings, w \in words, j \in joints, e \in endings}
  IN {[html |-> "", text |-> t] : t \in texts}
       \cup {[html |-> "<p>" \o t \o "</p>", text |-> ""] : t \in {"Your code is: AB12CD", "otp 123"}}

\* emailClient.extractVerificationCode(emailContent)
ExtractCode ==
  /\ applied = "none"
  /\ applied' = "extractVerificationCode"
  /\ returned' = extractVerificationCode(argument)
  /\ UNCHANGED <<argument, orchVars, wfVars, apiVars, taskVars, limitVars, mailVars, multiVars>>

\* the contents the link extractor is applied to: html parts with one or two
\* anchors, or none, and text parts with a URL, or none
LinkContents ==
  LET urls == {"https://x.test/verify?t=1", "http://x.test/a?next=confirm",
               "https://x.test/home", "https://www.activate.test/",
               "https://x.test/ACTIVATE/9", "https://verify.test/"}
      anchor(u) == "<a href=\"" \o u \o "\">go</a>"
      htmls == {"", "<p>hello</p>"}
                 \cup {anchor(u) : u \in urls}
                 \cup {anchor(u) \o "<br>" \o anchor(v) : u \in urls, v \in urls}
      texts == {"", "no links", "see https://y.test/confirm/7 now",
                "see https://y.test/about and http://y.test/?activate=1"}
  IN {[html |-> h, text |-> t] : h \in htmls, t \in texts}

\* emailClient.extractVerificationLinks(emailContent)
ExtractLinks ==
  /\ applied = "none"
  /\ applied' = "extractVerificationLinks"
  /\ returned' = extractVerificationLinks(argument)
  /\ UNCHANGED <<argument, orchVars, wfVars, apiVars, taskVars, limitVars, mailVars, multiVars>>

\* the texts the local analysis is applied to: the empty one, and those made of
\* an opening, a subject and a closing
AnalysisTexts ==
  LET openings == {"", "URGENT!!! ", "Please ", "PLEASE ", "hola que tal, "}
      subjects == {"help with a bug", "buy the order", "meeting schedule", "report status",
                   "refund complaint", "asap deadline today immediate", "hello", "1234",
                   "urgent help", "bug report"}
      closings == {"", " thanks", " terrible awful", " whenever, no rush",
                   " le chat et le chien", " der die und das"}
      sentence80 == "Please review the attached figures and send your comments to the whole team soon"
  IN {a \o b \o c : a \in openings, b \in subjects, c \in closings}
     \cup {"", sentence80, "Hi. " \o sentence80, sentence80 \o " again",
           "Call me. Send it! Review this? Hello. Submit it. Deliver it"}

\* huggingfaceService.performLocalAnalysis(emailContent), on the text of a
\* message
Analyze ==
  /\ applied = "none"
  /\ applied' = "performLocalAnalysis"
  /\ returned' = performLocalAnalysis(argument.text)
  /\ UNCHANGED <<argument, orchVars, wfVars, apiVars, taskVars, limitVars, mailVars, multiVars>>

\* each function is applied once to a content the caller chose
UtilInit ==
  /\ OrchIdle /\ WorkflowIdle /\ MultiIdle /\ MailIdle /\ LimitIdle /\ TaskIdle /\ ApiIdle
  /\ applied = "none"
  /\ argument \in CodeContents \cup LinkContents \cup {[html |-> "", text |-> t] : t \in AnalysisTexts}
  /\ returned = <<>>

UtilNext ==
  \/ ExtractCode
  \/ ExtractLinks
  \/ Analyze

UtilSpec == UtilInit /\ [][UtilNext]_vars

(***************************************************************************)
(* The HTTP routes of api/routes/email.js and api/routes/automation.js     *)
(* behind the middleware of middleware/auth.js, for a request that the     *)
(* application-level middleware of api/server.js has passed on.            *)
(***************************************************************************)

\* a value of a JSON body: undefined (the field is absent), a string, a number
\* or an object with html and text parts
Undefined == [t |-> "undefined", s |-> "", n |-> 0, html |-> "", text |-> ""]
Str(x) == [t |-> "string", s |-> x, n |-> 0, html |-> "", text |-> ""]
Num(x) == [t |-> "number", s |-> "", n |-> x, html |-> "", text |-> ""]
Obj(h, x) == [t |-> "object", s |-> "", n |-> 0, html |-> h, text |-> x]

\* !v
Falsy(v) ==
  \/ v.t = "undefined"
  \/ v.t = "string" /\ v.s = ""
  \/ v.t = "number" /\ v.n = 0

\* v < k and v > k for a number k: a string that is no numeral converts to NaN,
\* and every comparison with NaN is false
LessThan(v, k) == v.t = "number" /\ v.n < k
GreaterThan(v, k) == v.t = "number" /\ v.n > k

\* process.env and config.email as the server can be started
ServerEnvs ==
  [NODE_ENV : {"production", "test", "development"},
   ENABLE_AUTH : {"", "true"},
   API_KEYS : {"", "test-api-key,another-test-key", "k1, k2"},
   EMAIL_USER : BOOLEAN]

\* the requests the model sends: the route, the X-API-Key header and the
\* api_key query parameter ("" when absent), the :sender parameter and the
\* limit query parameter of /latest (0 when absent), and the fields of the body
Requests ==
  LET keys == {"", "test-api-key", "dev-api-key", "invalid-key", "k2"}
      senders == {Undefined, Str("example.com"), Str("test@example.com"), Num(42)}
      waits == {Undefined, Num(4999), Num(5000), Num(300000), Num(300001), Str("soon")}
      contents == {Undefined, Str(""), Num(7), Str("see https://x.test/verify?t=1"),
                   Obj("<a href=\"https://x.test/confirm\">go</a>", "")}
      shape == [route : {"POST /api/automation/verify-email"}, headerKey : keys,
                queryKey : {"", "test-api-key"}, sender : {""}, limit : {0},
                senderEmail : {Undefined}, maxWaitTime : {Undefined},
                emailContent : {Undefined}]
  IN {[r EXCEPT !.senderEmail = e, !.maxWaitTime = w] : r \in shape, e \in senders, w \in waits}
       \cup {[r EXCEPT !.route = "POST /api/emails/extract-links", !.emailContent = c] :
               r \in shape, c \in contents}
       \cup {[r EXCEPT !.route = "GET /api/emails/latest/:sender", !.sender = a, !.limit = l] :
               r \in shape, a \in {"test@example.com", "invalid-email"}, l \in {0, 5, 101}}

\* what the chain of middleware and handler made of a request: the status sent
\* (0 while the handler awaits), and the steps reached, in order
Answer(code, step) == [status |-> code, reached |-> <<step>>]

\* next(): the step passes the request on to the rest of the chain
Passed(step, rest) == [status |-> rest.status, reached |-> <<step>> \o rest.reached]

\* (process.env.API_KEYS || '').split(',').filter(key => key.trim())
validApiKeys(e) ==
  LET NotBlank(key) == Trim(key) # ""
  IN SelectSeq(Split(e.API_KEYS, {","}), NotBlank)

\* auth.js 38: max of keyLimiter
KeyLimit == 50

\* the memory store a limiter of express-rate-limit is built with: no request
\* is counted under any of the keys
MemoryStore(keys) == [k \in keys |-> 0]

\* a store counts a request under k
Increment(store, k) == [store EXCEPT ![k] = @ + 1]

\* auth.js 36-48: rateLimit({max: 50, keyGenerator: () => apiKey}) builds a
\* limiter with a memory store of its own; the limiter counts the request under
\* apiKey and passes it on while the count is within max. TRUE when it passes.
keyLimiter(apiKey) ==
  LET store == Increment(MemoryStore({apiKey}), apiKey)
  IN store[apiKey] <= KeyLimit

\* the middleware with the membership test left out: any key is let through
apiKeyAuth_AnyKey(e, r, rest) ==
  LET apiKey == IF r.headerKey # "" THEN r.headerKey ELSE r.queryKey
  IN IF apiKey = "" THEN Answer(401, "apiKeyAuth")
     ELSE IF validApiKeys(e) = <<>> /\ ~(e.NODE_ENV = "development" /\ apiKey = "dev-api-key")
     THEN Answer(500, "apiKeyAuth")
     ELSE Passed("apiKeyAuth", rest)

\* auth.js apiKeyAuth, with rest the answer of the chain after it. The limiter
\* it builds for the key is new with each request.
apiKeyAuth(e, r, rest) ==
  LET apiKey == IF r.headerKey # "" THEN r.headerKey ELSE r.queryKey
  IN IF apiKey = "" THEN Answer(401, "apiKeyAuth")
     ELSE IF validApiKeys(e) = <<>>
     THEN IF e.NODE_ENV = "development" /\ apiKey = "dev-api-key"
          THEN Passed("apiKeyAuth", rest)
          ELSE Answer(500, "apiKeyAuth")
     ELSE IF ~\E k \in 1..Len(validApiKeys(e)) : validApiKeys(e)[k] = apiKey
     THEN Answer(401, "apiKeyAuth")
     ELSE IF ~keyLimiter(apiKey) THEN Answer(429, "apiKeyAuth")
     ELSE Passed("apiKeyAuth", rest)

\* email.js 9: the condition under which the email router uses apiKeyAuth
authEnabled(e) == e.NODE_ENV \in {"production", "test"} \/ e.ENABLE_AUTH = "true"

\* validateConfig of automation.js and validateEmailConfig of email.js
validateConfig(e, rest) ==
  IF ~e.EMAIL_USER THEN Answer(500, "validateConfig") ELSE Passed("validateConfig", rest)

\* auth.js validateEmailInput: /^[^\s@]+@[^\s@]+\.[^\s@]+$/ on the :sender
\* parameter; ALLOWED_EMAIL_DOMAINS is not set
validateEmailInput(r, rest) ==
  LET at == {p \in 1..Len(r.sender) : CharAt(r.sender, p) = "@"}
      a == CHOOSE p \in at : TRUE
      matches == /\ Cardinality(at) = 1
                 /\ \A p \in 1..Len(r.sender) : CharAt(r.sender, p) \notin Whitespace
                 /\ a > 1
                 /\ \E d \in (a + 2)..(Len(r.sender) - 1) : CharAt(r.sender, d) = "."
  IN IF r.sender # "" /\ ~matches THEN Answer(400, "validateEmailInput")
     ELSE Passed("validateEmailInput", rest)

\* POST /verify-email, to its await: senderEmail.includes of a value that is
\* no string throws a TypeError, which the catch block answers with 500
verifyEmail(r) ==
  LET senderEmail == r.senderEmail
      maxWait == IF r.maxWaitTime.t = "undefined" THEN Num(60000) ELSE r.maxWaitTime
  IN IF Falsy(senderEmail) THEN Answer(400, "handler")
     ELSE IF senderEmail.t # "string" THEN Answer(500, "handler")
     ELSE IF ~Includes(senderEmail.s, "@") THEN Answer(400, "handler")
     ELSE IF LessThan(maxWait, 5000) \/ GreaterThan(maxWait, 300000)
     THEN Answer(400, "handler")
     ELSE Passed("handler", Answer(0, "executeVerificationWorkflow"))

\* GET /latest/:sender, to its first await
latestFromSender(r) ==
  LET limit == IF r.limit = 0 THEN 1 ELSE r.limit
  IN IF r.sender = "" \/ ~Includes(r.sender, "@") THEN Answer(400, "handler")
     ELSE IF limit < 1 \/ limit > 100 THEN Answer(400, "handler")
     ELSE Passed("handler", Answer(0, "connect"))

\* POST /extract-links
extractLinks(r) ==
  IF Falsy(r.emailContent) THEN Answer(400, "handler")
  ELSE IF r.emailContent.t \notin {"string", "object"} THEN Answer(400, "handler")
  ELSE Passed("handler", Answer(200, "extractVerificationLinks"))

\* the routers: what a request is answered with
Route(e, r) ==
  CASE r.route = "POST /api/automation/verify-email" ->
         apiKeyAuth(e, r, validateConfig(e, verifyEmail(r)))
    [] r.route = "GET /api/emails/latest/:sender" ->
         LET chain == validateConfig(e, validateEmailInput(r, latestFromSender(r)))
         IN IF authEnabled(e) THEN apiKeyAuth(e, r, chain) ELSE chain
    [] r.route = "POST /api/emails/extract-links" ->
         IF authEnabled(e) THEN apiKeyAuth(e, r, extractLinks(r)) ELSE extractLinks(r)

\* a request arrives and runs through its chain until a response is sent or
\* the handler awaits; /extract-links applies the extractor to the content
Receive(r) ==
  /\ req.route = "none"
  /\ req' = r
  /\ status' = Route(serverEnv, r).status
  /\ reached' = Route(serverEnv, r).reached
  /\ IF Route(serverEnv, r).reached[Len(Route(serverEnv, r).reached)] = "extractVerificationLinks"
     THEN LET processedContent ==
                IF r.emailContent.t = "string"
                THEN [html |-> "", text |-> r.emailContent.s]
                ELSE [html |-> r.emailContent.html, text |-> r.emailContent.text]
          IN /\ applied' = "extractVerificationLinks"
             /\ argument' = processedContent
             /\ returned' = extractVerificationLinks(processedContent)
     ELSE UNCHANGED utilVars
  /\ UNCHANGED <<serverEnv, orchVars, wfVars, taskVars, limitVars, mailVars, multiVars>>

\* what the handler awaited settles: the workflow returns or throws, or the
\* mailbox answers or fails, and /latest disconnects in its finally block
Settled(ok) ==
  /\ req.route # "none"
  /\ status = 0
  /\ status' = IF ok THEN 200 ELSE 500
  /\ reached' = IF req.route = "GET /api/emails/latest/:sender"
                THEN reached \o <<"disconnect">>
                ELSE reached
  /\ UNCHANGED <<serverEnv, req, utilVars, orchVars, wfVars, taskVars, limitVars, mailVars, multiVars>>

ApiInit ==
  /\ OrchIdle /\ WorkflowIdle /\ MultiIdle /\ MailIdle /\ LimitIdle /\ TaskIdle /\ UtilIdle
  /\ serverEnv \in ServerEnvs
  /\ req = [route |-> "none"]
  /\ status = 0
  /\ reached = <<>>

ApiNext ==
  \/ \E r \in Requests : Receive(r)
  \/ \E ok \in BOOLEAN : Settled(ok)

ApiSpec == ApiInit /\ [][ApiNext]_vars

(***************************************************************************)
(* The rate limiters: the limiter of server.js, which counts the requests  *)
(* of each client address, before the limiter apiKeyAuth builds.           *)
(***************************************************************************)

\* server.js 73: max of the limiter of the application
IpLimit == 100

\* how many requests the client sends within one window at most
RequestsPerWindow == 102

\* the addresses requests come from
Clients == {"203.0.113.7"}

\* the requests sent: POST /api/emails/extract-links with a content and with
\* any of the keys in the X-API-Key header
LimitedRequests ==
  {r \in Requests : /\ r.route = "POST /api/emails/extract-links"
                    /\ r.queryKey = ""
                    /\ r.emailContent = Str("see https://x.test/verify?t=1")}

\* server.js 71-92 and 149: the limiter counts the request under the client's
\* address and answers 429 beyond max; otherwise the router takes the request
\* (379), and the request is handled when it reaches the route handler
LimitedRequest(ip, r) ==
  /\ ipStore[ip] < RequestsPerWindow
  /\ ipStore' = Increment(ipStore, ip)
  /\ IF ipStore'[ip] > IpLimit
     THEN /\ answered' = 429
          /\ UNCHANGED handled
     ELSE /\ answered' = Route(serverEnv, r).status
          /\ handled' = IF \E i \in 1..Len(Route(serverEnv, r).reached) :
                             Route(serverEnv, r).reached[i] = "handler"
                        THEN Increment(handled, r.headerKey)
                        ELSE handled
  /\ UNCHANGED <<orchVars, wfVars, utilVars, apiVars, taskVars, mailVars, multiVars>>

\* windowMs has passed: the store of the limiter of server.js is reset, and a
\* new window begins
WindowEnds ==
  /\ answered # 0
  /\ ipStore' = MemoryStore(Clients)
  /\ handled' = [k \in DOMAIN handled |-> 0]
  /\ answered' = 0
  /\ UNCHANGED <<orchVars, wfVars, utilVars, apiVars, taskVars, mailVars, multiVars>>

LimitInit ==
  /\ OrchIdle /\ WorkflowIdle /\ MultiIdle /\ MailIdle /\ UtilIdle /\ ApiIdle /\ TaskIdle
  /\ ipStore = MemoryStore(Clients)
  /\ handled = MemoryStore({r.headerKey : r \in LimitedRequests})
  /\ answered = 0

LimitNext ==
  \/ \E ip \in Clients, r \in LimitedRequests : LimitedRequest(ip, r)
  \/ WindowEnds

LimitSpec == LimitInit /\ [][LimitNext]_vars

(***************************************************************************)
(* Concurrent verification tasks: every POST /verify-email request runs    *)
(* its own EmailVerificationWorkflow, and the requests' steps interleave   *)
(* on the event loop.                                                      *)
(***************************************************************************)

\* how many verify-email requests are served at the same time
MaxTasks == 3

\* a faulty constructor: every workflow uses the one mailbox client of the module
EmailVerificationWorkflow_SharedClient(existing) ==
  [wpc |-> "connecting", emailClient |-> 1, browser |-> 0]

\* part_008 5-8: the object new EmailVerificationWorkflow(...) gives when the
\* Imap connections of existing are there: it holds an Imap of its own
\* (emailClient.js 14) and a helper whose browser is null (puppeteerHelper.js 6)
EmailVerificationWorkflow(existing) ==
  [wpc |-> "connecting", emailClient |-> Len(existing) + 1, browser |-> 0]

\* part_008 61-66: cleanup() of workflow k, which closes the browser of its
\* helper when there is one, and otherwise ends the Imap of its client
cleanupOf(k) ==
  IF workflows[k].browser # 0
  THEN /\ workflows' = [workflows EXCEPT ![k].wpc = "closing"]
       /\ UNCHANGED imaps
  ELSE /\ workflows' = [workflows EXCEPT ![k].wpc = "done"]
       /\ imaps' = [imaps EXCEPT ![workflows[k].emailClient] = "ended"]

\* automation.js 43-45 and part_008 10-13: a valid request constructs its
\* workflow and calls executeVerificationWorkflow, which awaits connect()
PostVerifyEmail ==
  /\ Len(workflows) < MaxTasks
  /\ LET workflow == EmailVerificationWorkflow(imaps)
     IN /\ workflows' = Append(workflows, workflow)
        /\ imaps' = IF workflow.emailClient > Len(imaps) THEN Append(imaps, "idle") ELSE imaps
  /\ UNCHANGED browsers
  /\ UNCHANGED <<orchVars, wfVars, utilVars, apiVars, limitVars, mailVars, multiVars>>

\* part_008 13: connect() of workflow k settles
TaskConnected(k, ok) ==
  /\ workflows[k].wpc = "connecting"
  /\ IF ok
     THEN /\ workflows' = [workflows EXCEPT ![k].wpc = "polling"]
          /\ imaps' = [imaps EXCEPT ![workflows[k].emailClient] = "connected"]
     ELSE cleanupOf(k)
  /\ UNCHANGED browsers
  /\ UNCHANGED <<orchVars, wfVars, utilVars, apiVars, limitVars, mailVars, multiVars>>

\* part_008 16-25: the polling of workflow k ends, with a message that holds a
\* link or with a failure
TaskPolled(k, found) ==
  /\ workflows[k].wpc = "polling"
  /\ IF found
     THEN /\ workflows' = [workflows EXCEPT ![k].wpc = "launching"]
          /\ UNCHANGED imaps
     ELSE cleanupOf(k)
  /\ UNCHANGED browsers
  /\ UNCHANGED <<orchVars, wfVars, utilVars, apiVars, limitVars, mailVars, multiVars>>

\* puppeteerHelper.js 29 and part_008 25-28: puppeteer.launch of workflow k
\* settles; the process launched is the helper's own
TaskLaunched(k, ok) ==
  /\ workflows[k].wpc = "launching"
  /\ IF ok
     THEN /\ browsers' = Append(browsers, "open")
          /\ workflows' = [workflows EXCEPT ![k].wpc = "verifying", ![k].browser = Len(browsers')]
          /\ UNCHANGED imaps
     ELSE /\ cleanupOf(k)
          /\ UNCHANGED browsers
  /\ UNCHANGED <<orchVars, wfVars, utilVars, apiVars, limitVars, mailVars, multiVars>>

\* part_008 28-39: navigation and the wait for the completion marker of
\* workflow k settle, one way or the other, and cleanup() starts
TaskVerified(k) ==
  /\ workflows[k].wpc = "verifying"
  /\ cleanupOf(k)
  /\ UNCHANGED browsers
  /\ UNCHANGED <<orchVars, wfVars, utilVars, apiVars, limitVars, mailVars, multiVars>>

\* puppeteerHelper.js 52-56 and part_008 63-65: browser.close() of workflow k
\* settles; disconnect() follows when it did not reject
TaskClosed(k, ok) ==
  /\ workflows[k].wpc = "closing"
  /\ workflows' = [workflows EXCEPT ![k].wpc = "done"]
  /\ IF ok
     THEN /\ browsers' = [browsers EXCEPT ![workflows[k].browser] = "closed"]
          /\ imaps' = [imaps EXCEPT ![workflows[k].emailClient] = "ended"]
     ELSE UNCHANGED <<browsers, imaps>>
  /\ UNCHANGED <<orchVars, wfVars, utilVars, apiVars, limitVars, mailVars, multiVars>>

TaskInit == OrchIdle /\ WorkflowIdle /\ MultiIdle /\ MailIdle /\ LimitIdle /\ UtilIdle /\ ApiIdle /\ TaskIdle

TaskNext ==
  \/ PostVerifyEmail
  \/ \E k \in 1..Len(workflows), ok \in BOOLEAN : TaskConnected(k, ok)
  \/ \E k \in 1..Len(workflows), found \in BOOLEAN : TaskPolled(k, found)
  \/ \E k \in 1..Len(workflows), ok \in BOOLEAN : TaskLaunched(k, ok)
  \/ \E k \in 1..Len(workflows) : TaskVerified(k)
  \/ \E k \in 1..Len(workflows), ok \in BOOLEAN : TaskClosed(k, ok)

TaskSpec == TaskInit /\ [][TaskNext]_vars

(***************************************************************************)
(* HostingerEmailClient.searchEmails and getAllEmails (core/emailClient.js)*)
(* over the events of imap.fetch and the callbacks of simpleParser.        *)
(***************************************************************************)

\* how many messages the mailbox holds at most
MailboxSize == 3

\* the mailboxes: message k is the k-th oldest
Inboxes == {[k \in 1..n |-> [uid |-> k, date |-> 1000 * k]] : n \in 0..MailboxSize}

\* the limit arguments of searchEmails (0 when options.limit is not given) and
\* of getAllEmails, and the offset arguments
SearchLimits == {0, 1, 2}
PageLimits == {1, 2, 100}
PageOffsets == 0..(2 * MailboxSize)

\* let emailData = {}
EmptyData == [uid |-> 0, date |-> 0, fields |-> {}]

\* emailClient.js 65-74: the object the callback of simpleParser assigns to emailData
ParsedData(m) ==
  [uid |-> m.uid, date |-> m.date,
   fields |-> {"messageId", "subject", "from", "to", "date", "text", "html", "attachments"}]

\* Array.prototype.slice(start, end): an index below zero counts from the end
JsSlice(q, start, end) ==
  LET from == IF start < 0 THEN Max(Len(q) + start, 0) ELSE Min(start, Len(q))
      to == IF end < 0 THEN Max(Len(q) + end, 0) ELSE Min(end, Len(q))
  IN SubSeq(q, from + 1, to)

\* Array.prototype.reverse
Reverse(q) == [i \in 1..Len(q) |-> q[Len(q) + 1 - i]]

\* emailClient.js 49: options.limit ? results.slice(-options.limit) : results
limitedResults(results, limit) ==
  IF limit # 0 THEN JsSlice(results, -limit, Len(results)) ELSE results

\* emailClient.js 129-132: the page getAllEmails fetches
paginatedResults(results, limit, offset) ==
  LET totalResults == Len(results)
      startIndex == Max(0, totalResults - offset - limit)
      endIndex == totalResults - offset
  IN Reverse(JsSlice(results, startIndex, endIndex))

\* emailClient.js 45-56 and 134-143: an empty list resolves the promise at
\* once; otherwise imap.fetch is called and the events of its messages follow
Fetch(fn, limit, offset, list) ==
  /\ query.fn = "none"
  /\ query' = [fn |-> fn, limit |-> limit, offset |-> offset]
  /\ fetched' = list
  /\ msgs' = [i \in 1..Len(list) |->
                [body |-> FALSE, parser |-> "idle", ended |-> FALSE, emailData |-> EmptyData]]
  /\ resolved' = IF list = <<>> THEN Returned(<<>>) ELSE NoOutcome
  /\ UNCHANGED <<inbox, fetchedEmails>>
  /\ UNCHANGED <<orchVars, wfVars, utilVars, apiVars, taskVars, limitVars, multiVars>>

\* emailClient.js 37-56: searchEmails (getLatestFromSender) with the messages
\* of the mailbox matching its criteria
searchEmails(limit) == Fetch("searchEmails", limit, 0, limitedResults(inbox, limit))

\* emailClient.js 116-143
getAllEmails(limit, offset) ==
  Fetch("getAllEmails", limit, offset, paginatedResults(inbox, limit, offset))

\* emailClient.js 58-62: the 'body' event of message i, which arrives when the
\* message before it has ended; simpleParser starts to read the stream
MessageBody(i) ==
  /\ resolved = NoOutcome
  /\ ~msgs[i].body
  /\ IF i = 1 THEN TRUE ELSE msgs[i - 1].ended
  /\ msgs' = [msgs EXCEPT ![i].body = TRUE, ![i].parser = "running"]
  /\ UNCHANGED <<inbox, query, fetched, fetchedEmails, resolved>>
  /\ UNCHANGED <<orchVars, wfVars, utilVars, apiVars, taskVars, limitVars, multiVars>>

\* emailClient.js 62-75: simpleParser calls back for message i, with the parsed
\* message or with an error; emailData is assigned a new object
ParserCallback(i, ok) ==
  /\ msgs[i].parser = "running"
  /\ msgs' = [msgs EXCEPT ![i].parser = "done",
                          ![i].emailData = IF ok THEN ParsedData(fetched[i]) ELSE @]
  /\ UNCHANGED <<inbox, query, fetched, fetchedEmails, resolved>>
  /\ UNCHANGED <<orchVars, wfVars, utilVars, apiVars, taskVars, limitVars, multiVars>>

\* emailClient.js 78-80: the 'end' event of message i pushes the object that
\* emailData holds at this moment
MessageEnd(i) ==
  /\ msgs[i].body
  /\ ~msgs[i].ended
  /\ msgs' = [msgs EXCEPT ![i].ended = TRUE]
  /\ fetchedEmails' = Append(fetchedEmails, msgs[i].emailData)
  /\ UNCHANGED <<inbox, query, fetched, resolved>>
  /\ UNCHANGED <<orchVars, wfVars, utilVars, apiVars, taskVars, limitVars, multiVars>>

\* the orders in which emails.sort((a, b) => new Date(b.date) - new Date(a.date))
\* can leave the array: newest first when every object has a date; the
\* comparison with an object without one gives NaN, and the order is then
\* left to the engine
SortedOrders(q) ==
  LET perms == {p \in [1..Len(q) -> 1..Len(q)] : \A i, j \in 1..Len(q) : i # j => p[i] # p[j]}
      dated == \A i \in 1..Len(q) : "date" \in q[i].fields
  IN {[i \in 1..Len(q) |-> q[p[i]]] :
        p \in {p \in perms : dated => \A i, j \in 1..Len(q) : i < j => q[p[i]].date >= q[p[j]].date}}

\* emailClient.js 84-87: the 'end' event of the fetch, after the last message
\* has ended: the array is sorted and the promise resolved with it
FetchEnd ==
  /\ query.fn # "none"
  /\ resolved = NoOutcome
  /\ \A i \in 1..Len(msgs) : msgs[i].ended
  /\ \E sorted \in SortedOrders(fetchedEmails) :
       /\ fetchedEmails' = sorted
       /\ resolved' = Returned(sorted)
  /\ UNCHANGED <<inbox, query, fetched, msgs>>
  /\ UNCHANGED <<orchVars, wfVars, utilVars, apiVars, taskVars, limitVars, multiVars>>

MailInit ==
  /\ OrchIdle /\ WorkflowIdle /\ MultiIdle /\ UtilIdle /\ ApiIdle /\ TaskIdle /\ LimitIdle
  /\ inbox \in Inboxes
  /\ query = [fn |-> "none", limit |-> 0, offset |-> 0]
  /\ fetched = <<>>
  /\ msgs = <<>>
  /\ fetchedEmails = <<>>
  /\ resolved = NoOutcome

MailNext ==
  \/ \E limit \in SearchLimits : searchEmails(limit)
  \/ \E limit \in PageLimits, offset \in PageOffsets : getAllEmails(limit, offset)
  \/ \E i \in 1..Len(msgs) : MessageBody(i)
  \/ \E i \in 1..Len(msgs), ok \in BOOLEAN : ParserCallback(i, ok)
  \/ \E i \in 1..Len(msgs) : MessageEnd(i)
  \/ FetchEnd

MailSpec == MailInit /\ [][MailNext]_vars

(***************************************************************************)
(* MultiAIService (core/emailClient.js 407-770): analyzeEmail over the     *)
(* providers whose keys are set.                                           *)
(***************************************************************************)

\* the provider keys process.env may hold
MultiEnvs ==
  [GROQ_API_KEY : BOOLEAN, OPENAI_API_KEY : BOOLEAN,
   ANTHROPIC_API_KEY : BOOLEAN, GEMINI_API_KEY : BOOLEAN]

\* options.analysisType
AnalysisTypes == {"comprehensive", "quick", "security"}

\* how the request to a vendor ends: with a text that holds JSON, with a text
\* that does not, with a status that is not ok, or with a network error
VendorAnswers == {"json", "prose", "status 500", "fetch failed"}

\* emailClient.js 416-458: the providers whose key is set, by priority
initializeProviders(e) ==
  (IF e.GROQ_API_KEY THEN <<[name |-> "groq", type |-> "groq", priority |-> 1]>> ELSE <<>>)
  \o (IF e.OPENAI_API_KEY THEN <<[name |-> "openai", type |-> "openai", priority |-> 2]>> ELSE <<>>)
  \o (IF e.ANTHROPIC_API_KEY THEN <<[name |-> "claude", type |-> "anthropic", priority |-> 3]>> ELSE <<>>)
  \o (IF e.GEMINI_API_KEY THEN <<[name |-> "gemini", type |-> "google", priority |-> 4]>> ELSE <<>>)

\* emailClient.js 672-690: parseAIResponse, which falls back to a fixed
\* analysis when the text holds no JSON
parseAIResponse(text) ==
  IF text = "json"
  THEN [category |-> "support", priority |-> "high", sentiment |-> "neutral", parsed |-> TRUE]
  ELSE [category |-> "general", priority |-> "medium", sentiment |-> "neutral", parsed |-> FALSE]

\* emailClient.js 527-655: what analyzeWithGroq, analyzeWithOpenAI,
\* analyzeWithClaude or analyzeWithGemini settles with when its vendor's
\* request ended with answer
analyzeWith(provider, answer) ==
  IF answer \in {"json", "prose"}
  THEN Returned([success |-> TRUE, provider |-> provider.name, error |-> "",
                 analysis |-> parseAIResponse(answer)])
  ELSE Raised(provider.name \o " API error: " \o answer)

\* emailClient.js 511: the class defines no method analyzeWithProvider, so the
\* call throws a TypeError before any request is made
analyzeWithProvider(provider) == Raised("this.analyzeWithProvider is not a function")

\* a result with success: false
Failure(message) ==
  Returned([success |-> FALSE, provider |-> "", error |-> message,
            analysis |-> parseAIResponse("")])

\* emailClient.js 479-502: analyzeEmail answers at once when no provider is
\* enabled, and otherwise calls the adapter of the first provider
analyzeEmail(analysisType) ==
  /\ analysis.pc = "idle"
  /\ IF enabledProviders = <<>>
     THEN /\ analysis' = [pc |-> "done", analysisType |-> analysisType]
          /\ multiResult' = Failure("No AI providers available")
          /\ UNCHANGED attempted
     ELSE /\ analysis' = [pc |-> "primary", analysisType |-> analysisType]
          /\ attempted' = Append(attempted, enabledProviders[1].name)
          /\ UNCHANGED multiResult
  /\ UNCHANGED <<multiEnv, enabledProviders>>
  /\ UNCHANGED <<orchVars, wfVars, utilVars, apiVars, taskVars, limitVars, mailVars>>

\* emailClient.js 493-524: the adapter of the first provider settles. Its
\* result is returned; its error is caught, and with a second provider
\* enabled the call of analyzeWithProvider follows, whose error is caught too
PrimaryAnswered(answer) ==
  /\ analysis.pc = "primary"
  /\ analysis' = [analysis EXCEPT !.pc = "done"]
  /\ LET first == analyzeWith(enabledProviders[1], answer)
     IN IF first.kind = "return"
        THEN multiResult' = first
        ELSE IF Len(enabledProviders) > 1
        THEN LET second == analyzeWithProvider(enabledProviders[2])
             IN IF second.kind = "return"
                THEN multiResult' = second
                ELSE multiResult' = Failure("All providers failed. Primary: " \o first.value.message
                                            \o ", Fallback: " \o second.value.message)
        ELSE multiResult' = Failure(first.value.message)
  /\ UNCHANGED <<multiEnv, enabledProviders, attempted>>
  /\ UNCHANGED <<orchVars, wfVars, utilVars, apiVars, taskVars, limitVars, mailVars>>

\* the caller is given the result and may call again
MultiReturned ==
  /\ analysis.pc = "done"
  /\ analysis' = [pc |-> "idle", analysisType |-> ""]
  /\ attempted' = <<>>
  /\ multiResult' = NoOutcome
  /\ UNCHANGED <<multiEnv, enabledProviders>>
  /\ UNCHANGED <<orchVars, wfVars, utilVars, apiVars, taskVars, limitVars, mailVars>>

MultiInit ==
  /\ OrchIdle /\ WorkflowIdle /\ UtilIdle /\ ApiIdle /\ TaskIdle /\ LimitIdle /\ MailIdle
  /\ multiEnv \in MultiEnvs
  /\ enabledProviders = initializeProviders(multiEnv)
  /\ analysis = [pc |-> "idle", analysisType |-> ""]
  /\ attempted = <<>>
  /\ multiResult = NoOutcome

MultiNext ==
  \/ \E t \in AnalysisTypes : analyzeEmail(t)
  \/ \E a \in VendorAnswers : PrimaryAnswered(a)
  \/ MultiReturned

MultiSpec == MultiInit /\ [][MultiNext]_vars

(***************************************************************************)
(* Properties of the orchestrator.                                         *)
(***************************************************************************)

Terminal == pc \in {"returned", "raised"}

ServiceOf(who) == IF who = "primary" THEN primaryAI ELSE fallbackAI

\* the adapters that are configured with a remote vendor
ConfiguredRemote == {w \in {"primary", "fallback"} : ServiceOf(w).enabled}

Logged(e, who) == \E i \in 1..Len(log) : log[i].ev = e /\ log[i].who = who

\* the remote request of adapter who was rejected
RemoteRaised(who) ==
  \E i \in 1..Len(log) : log[i].ev = "remote" /\ log[i].who = who /\ log[i].out.kind = "raise"

HasField(r, f) == f \in DOMAIN r

\* C1: analyzeEmail, generateEmailResponse and extractActionItems through the
\* orchestrator return a result and never raise, for every startup
\* configuration and every pattern of remote failures.
C1_NeverRaises ==
  call.method \in {"analyzeEmail", "generateEmailResponse", "extractActionItems"}
    => pc # "raised"

\* C2: when every configured remote adapter raises during an analyzeEmail call,
\* the call returns a successful result of the local engine: provider 'local',
\* analysis confidence 0.85.
C2_LocalWhenAllRemotesRaise ==
  (/\ Terminal
   /\ call.method = "analyzeEmail"
   /\ ConfiguredRemote # {}
   /\ \A w \in ConfiguredRemote : RemoteRaised(w))
  => /\ pc = "returned"
     /\ outcome.value.success
     /\ HasField(outcome.value, "provider")
     /\ outcome.value.provider = "local"
     /\ outcome.value.analysis.analysis_confidence = LocalConfidence

\* C3: every analysis result the orchestrator returns satisfies
\* requires_human_review = (priority = high or category = urgent or
\* sentiment = negative), also when a remote answer omits or contradicts it.
C3_HumanReviewDerived ==
  (/\ pc = "returned"
   /\ call.method = "analyzeEmail"
   /\ HasField(outcome.value, "analysis"))
  => LET a == outcome.value.analysis
     IN /\ HasField(a, "requires_human_review")
        /\ a.requires_human_review =
             (a.priority = "high" \/ a.category = "urgent" \/ a.sentiment = "negative")

\* C4: within one call the adapters are attempted one at a time in priority
\* order: the fallback is invoked only after the primary's attempt has failed,
\* never while the primary is outstanding and never when the primary succeeded,
\* and when the primary fails and the fallback succeeds the result is the
\* fallback's.
C4_SequentialFallback ==
  /\ Cardinality(awaiting) <= 1
  /\ \A i \in 1..Len(log) :
       (log[i].ev = "call" /\ log[i].who = "fallback") =>
         /\ \E j \in 1..(i - 1) : log[j].ev = "fail" /\ log[j].who = "primary"
         /\ ~Logged("ok", "primary")
         /\ "primary" \notin awaiting
  /\ \A i \in 1..Len(log) :
       (Logged("fail", "primary") /\ log[i].ev = "ok" /\ log[i].who = "fallback") =>
         /\ pc = "returned"
         /\ outcome = log[i].out

C4_Witness ==
  /\ pc = "returned"
  /\ Logged("fail", "primary")
  /\ Logged("ok", "fallback")
  /\ outcome.value.provider = "local"

\* C7: an analyzeEmail or generateEmailResponse call that returns normally
\* returns a usable result (success = true), never an adapter's failure.
C7_ReturnedIsUsable ==
  (pc = "returned" /\ call.method \in {"analyzeEmail", "generateEmailResponse"})
    => outcome.value.success

\* C8: an orchestrator call eventually returns, also when a remote adapter
\* never responds.
C8_CallEventuallyEnds == (pc = "waiting") ~> Terminal

\* C9: summarizeEmailThread fails only when every configured remote adapter
\* failed or is disabled; the failure is raised, never returned as a value,
\* and never replaced by a local summary.
C9_SummaryFailureRaised ==
  (Terminal /\ call.method = "summarizeEmailThread") =>
    LET failed == pc = "raised" \/ ~outcome.value.success
    IN /\ failed => \A w \in ConfiguredRemote : RemoteRaised(w) \/ Logged("fail", w)
       /\ failed => pc = "raised"
       /\ pc = "returned" =>
            ~(HasField(outcome.value, "provider") /\ outcome.value.provider = "local")

(***************************************************************************)
(* Properties of the verification workflow.                                *)
(***************************************************************************)

\* how often the workflow has called the collaborator method name
Invocations(name) == Cardinality({i \in 1..Len(calls) : calls[i] = name})

\* browser.close() rejected: the call has ended and the browser is still open
CloseFailed == wpc = "done" /\ chrome = "open"

\* the step of the workflow that failed
StepThatFailed == IF CloseFailed THEN "close" ELSE failedStep

\* the failure kind each step stands for
KindOfStep(step) ==
  CASE step \in {"connect", "poll"} -> "MailboxUnavailable"
    [] step = "timeout" -> "VerificationTimedOut"
    [] step = "link" -> "NoVerificationLinkFound"
    [] step \in {"launch", "navigate", "complete", "close"} -> "AutomationFailed"
    [] OTHER -> "none"

\* what a caller can tell from the Error it catches: the code fixes the text
\* of two failures (part_008 21 and 58); every other Error carries the text of
\* whatever the mailbox or browser library threw
ReportedKind(error) ==
  CASE error.message = "Verification workflow failed: No verification links found"
         -> "NoVerificationLinkFound"
    [] error.message = "Verification workflow failed: Verification email not received within timeout"
         -> "VerificationTimedOut"
    [] OTHER -> "Error"

\* C5: for each terminal outcome of executeVerificationWorkflow (completed,
\* verification failed, timed out) the browser helper's close() and the mailbox
\* client's disconnect() have each been invoked exactly once when the call
\* returns or raises.
C5_CloseAndDisconnectOnce ==
  (/\ wpc = "done"
   /\ \/ wresult.kind = "return"
      \/ failedStep \in {"navigate", "complete", "timeout"})
  => /\ Invocations("close") = 1
     /\ Invocations("disconnect") = 1

\* C6: on every exit path of executeVerificationWorkflow, a failure raised
\* while closing the browser included, the mailbox connection is disconnected
\* and a launched browser is closed when control returns to the caller.
C6_ReleasedOnEveryExit ==
  wpc = "done" => (imap # "connected" /\ chrome # "open")

\* C10: every failure of executeVerificationWorkflow reaches the caller as one
\* of the four kinds (no verification link found, polling timed out, browser
\* automation failed, mailbox unavailable), the kind of the step that failed,
\* also when cleanup itself fails.
C10_FailureKindMatchesStep ==
  (wpc = "done" /\ wresult.kind = "raise")
  => ReportedKind(wresult.value) = KindOfStep(StepThatFailed)

\* the age of the accepted message when it was accepted (the clock is not read
\* again after a message was accepted)
AcceptedAge == now - verificationEmail[1].date

\* the loop pauses after a query that returned a message it did not accept
Rejected == wpc = "sleeping" /\ Len(emails) > 0

\* the age of that message when it was rejected
RejectedAge == now - emails[1].date

\* C11: during polling a message whose age equals the freshness window of
\* 300000 ms exactly is accepted, and a message one millisecond older is
\* rejected as stale and polling continues.
C11_EdgeAccepted ==
  /\ verificationEmail # <<>> => AcceptedAge <= FreshnessWindow
  /\ Rejected => RejectedAge > FreshnessWindow

\* C11 as amended: a message is accepted when its age is below the freshness
\* window (at most 299999 ms); a message whose age equals the window, or is
\* older, is rejected as stale and polling continues.
C11_FreshBelowWindow ==
  /\ verificationEmail # <<>> => AcceptedAge < FreshnessWindow
  /\ Rejected => RejectedAge >= FreshnessWindow

\* a message aged exactly 300000 ms was rejected and the loop pauses
C11_Witness == Rejected /\ RejectedAge = FreshnessWindow

\* what the caller catches when polling timed out (part_008 58, wrapped at 35)
TimeoutError ==
  Raised("Verification workflow failed: Verification email not received within timeout")

Elapsed == now - startTime

\* C13: the polling deadline is hard: once maxWaitTime has elapsed since
\* polling started no further mailbox query is issued and no message is
\* accepted, so no message is returned at or after the deadline.
C13_HardDeadline ==
  /\ wpc = "polling" => Elapsed < maxWaitTime
  /\ verificationEmail # <<>> => Elapsed < maxWaitTime

\* the state of the workflow's state machine: the run is Idle until the mailbox
\* is connected, Polling while it queries and pauses, Verifying from the launch
\* of the browser until the browser is closed, and then in the terminal state
\* of its outcome. MatchFound is passed within the step that accepts a message.
Phase ==
  CASE wpc \in {"idle", "connecting"} -> "Idle"
    [] wpc \in {"polling", "sleeping"} -> "Polling"
    [] wpc \in {"launching", "navigating", "verifying", "closing"} -> "Verifying"
    [] wpc = "done" /\ wresult.kind = "return" -> "Completed"
    [] wpc = "done" /\ wresult.kind # "return" /\ failedStep = "timeout" -> "TimedOut"
    [] OTHER -> "VerificationFailed"

\* the transitions of the state machine, MatchFound left out; a run also fails
\* from Idle when the mailbox cannot be connected, times out from Idle when its
\* deadline has passed, and fails from Polling when a query raises or the
\* accepted message has no link
Transitions ==
  {<<"Idle", "Polling">>, <<"Idle", "VerificationFailed">>, <<"Idle", "TimedOut">>,
   <<"Polling", "Verifying">>, <<"Polling", "VerificationFailed">>, <<"Polling", "TimedOut">>,
   <<"Verifying", "Completed">>, <<"Verifying", "VerificationFailed">>}

AcceptedWithoutLink ==
  /\ verificationEmail # <<>>
  /\ extractVerificationLinks(verificationEmail[1]) = <<>>

\* C20: when the accepted message holds no verification link the run has
\* failed with the no-link failure: the query that brought the message is the
\* last the run issued, the browser was not launched, and the mailbox was
\* disconnected
C20_NoLinkFailsAtOnce ==
  AcceptedWithoutLink =>
    /\ wpc = "done"
    /\ failedStep = "link"
    /\ wresult = Raised("Verification workflow failed: No verification links found")
    /\ ReportedKind(wresult.value) = "NoVerificationLinkFound"
    /\ Invocations("initialize") = 0
    /\ chrome = "none"
    /\ Len(calls) >= 2
    /\ calls[Len(calls) - 1] = "getLatestFromSender"
    /\ calls[Len(calls)] = "disconnect"

\* C20: a fresh message whose html part holds no link was accepted, after a
\* stale one, and the run has ended
C20_Witness ==
  /\ AcceptedWithoutLink
  /\ verificationEmail[1].html = "<p>Welcome</p>"
  /\ Invocations("getLatestFromSender") = 2
  /\ wpc = "done"

\* this step issues a mailbox query
QueryIssued ==
  /\ Len(calls') = Len(calls) + 1
  /\ calls'[Len(calls')] = "getLatestFromSender"

\* C21: the polls of a run are strictly sequential. A query is outstanding
\* exactly while the query is the last call the run made, so at most one is
\* outstanding; and a query after the first is issued only from the pause that
\* followed the previous query's answer, when the pause has lasted at least
\* 5 seconds.
C21_SequentialPolls ==
  /\ [](wpc = "polling" <=> (calls # <<>> /\ calls[Len(calls)] = "getLatestFromSender"))
  /\ [][QueryIssued =>
          /\ wpc # "polling"
          /\ Invocations("getLatestFromSender") > 0 =>
               /\ wpc = "sleeping"
               /\ calls[Len(calls)] = "setTimeout"
               /\ calls[Len(calls) - 1] = "getLatestFromSender"
               /\ now' - now >= PollInterval]_vars

\* C21: the second query of a run is outstanding
C21_Witness ==
  /\ wpc = "polling"
  /\ Invocations("getLatestFromSender") = 2

\* C22: when every call on the mailbox and the browser settles and the clock
\* advances, a run that has started ends: executeVerificationWorkflow returns
\* its result or raises, also when every query brings a stale message or none.
C22_EveryRunEnds ==
  /\ (wpc # "idle") ~> (wpc = "done")
  /\ [](wpc = "done" => wresult.kind \in {"return", "raise"})

\* C22: a run has ended in the timeout after its queries brought, first no
\* message, then a stale one
C22_Witness ==
  /\ wpc = "done"
  /\ wresult = TimeoutError
  /\ Invocations("getLatestFromSender") = 2
  /\ Invocations("setTimeout") = 2
  /\ emails # <<>>

(***************************************************************************)
(* Properties of the pure functions.                                       *)
(***************************************************************************)

\* C14: extractVerificationCode returns a run of 4 to 8 uppercase letters and
\* digits, or nothing: from the text 'Your code is: AB12CD' it returns 'AB12CD',
\* and from 'no code here' it returns nothing
C14_CodeIsUppercaseRun ==
  applied = "extractVerificationCode" =>
    /\ argument.text = "Your code is: AB12CD" => returned = <<"AB12CD">>
    /\ argument.text = "no code here" => returned = <<>>
    /\ returned # <<>> =>
         /\ Len(returned[1]) \in 4..8
         /\ \A i \in 1..Len(returned[1]) :
              \/ CharAt(returned[1], i) \in Digits
              \/ \E k \in 1..Len(UpperLetters) : CharAt(returned[1], i) = UpperLetters[k]

\* a is b with some of its entries left out
RECURSIVE IsSubsequence(_, _)
IsSubsequence(a, b) ==
  IF a = <<>> THEN TRUE
  ELSE IF b = <<>> THEN FALSE
  ELSE IF Head(a) = Head(b) THEN IsSubsequence(Tail(a), Tail(b))
  ELSE IsSubsequence(a, Tail(b))

\* C15: extractVerificationLinks scans the html part, and the text part only
\* when the html part is absent or empty. Of the URLs of the part it scans, it
\* returns every one that has verify, confirm or activate in its path or query,
\* and none that has no marker at all, in the order of the document; so it
\* returns the empty list when no URL contains a marker. A URL is a run of
\* characters other than whitespace, angle brackets and double quotes, from
\* http:// or https:// on.
C15_LinksInDocumentOrder ==
  applied = "extractVerificationLinks" =>
    LET part == IF argument.html # "" THEN argument.html ELSE argument.text
        Delimited(p) == p < 1 \/ p > Len(part) \/ CharAt(part, p) \in LinkDelimiters
        \* the run of characters that position p stands in
        RunOf(p) == {q \in 1..Len(part) : \A m \in Min(p, q)..Max(p, q) : ~Delimited(m)}
        \* where the URLs start: the first scheme of each run
        starts == {p \in 1..Len(part) :
                     /\ SchemeAt(part, p) > 0
                     /\ \A q \in RunOf(p) : q < p => SchemeAt(part, q) = 0}
        UrlAt(p) == SubSeq(part, p, CHOOSE e \in RunOf(p) : \A q \in RunOf(p) : q <= e)
        \* the k-th start from the left
        Start(k) == CHOOSE p \in starts : Cardinality({q \in starts : q < p}) = k - 1
        urls == [k \in 1..Cardinality(starts) |-> UrlAt(Start(k))]
        HasMarker(u) == \E k \in 1..Len(LinkMarkers) : Includes(ToLowerCase(u), LinkMarkers[k])
        PathAndQuery(u) ==
          LET n == SchemeAt(u, 1)
              after == {p \in (n + 1)..Len(u) : CharAt(u, p) \in {"/", "?"}}
          IN IF after = {} THEN ""
             ELSE SubSeq(u, CHOOSE p \in after : \A q \in after : p <= q, Len(u))
        InPathOrQuery(u) == HasMarker(PathAndQuery(u))
    IN /\ IsSubsequence(SelectSeq(urls, InPathOrQuery), returned)
       /\ IsSubsequence(returned, SelectSeq(urls, HasMarker))
       /\ (\A k \in 1..Len(urls) : ~HasMarker(urls[k])) => returned = <<>>

\* C15: two links of the html part were returned, in their order, from a
\* message whose text part holds a link of its own
C15_Witness ==
  /\ applied = "extractVerificationLinks"
  /\ argument.html # ""
  /\ extractVerificationLinks([html |-> "", text |-> argument.text]) # <<>>
  /\ Len(returned) = 2
  /\ returned[1] # returned[2]

\* C16: the local analysis of any text, the empty one included, has a category
\* among urgent, support, sales, meeting, report, complaint and general, a
\* priority among high, medium and low, a sentiment among positive, neutral and
\* negative, an urgency score that is an integer from 1 to 10, and a language
\* code of two letters; the empty text is general, medium, neutral, 5 and en
C16_AnalysisInRange ==
  applied = "performLocalAnalysis" =>
    /\ returned.category \in
         {"urgent", "support", "sales", "meeting", "report", "complaint", "general"}
    /\ returned.priority \in {"high", "medium", "low"}
    /\ returned.sentiment \in {"positive", "neutral", "negative"}
    /\ returned.urgency_score \in 1..10
    /\ Len(returned.detected_language) = 2
    /\ \A i \in 1..2 : \E k \in 1..Len(LowerLetters) :
         CharAt(returned.detected_language, i) = LowerLetters[k]
    /\ argument.text = "" =>
         /\ returned.category = "general"
         /\ returned.priority = "medium"
         /\ returned.sentiment = "neutral"
         /\ returned.urgency_score = 5
         /\ returned.detected_language = "en"

\* C16: a text whose urgency terms add up to more than 10 was analysed
C16_Witness ==
  /\ applied = "performLocalAnalysis"
  /\ Includes(ToLowerCase(argument.text), "urgent")
  /\ Includes(ToLowerCase(argument.text), "asap")
  /\ Includes(ToLowerCase(argument.text), "deadline")
  /\ returned.urgency_score = 10
  /\ returned.detected_language = "en"

\* the text the local engine analyses: the message in lower case (460)
AnalysedContent == ToLowerCase(argument.text)

\* C24: the local categorizer returns the category whose keyword score is
\* strictly the highest, and "general" whenever two or more categories share
\* the highest score, all scores being zero included.
C24_TiesAreGeneral ==
  applied = "performLocalAnalysis" =>
    LET Score(i) == KeywordScore(AnalysedContent, categories[i].keywords)
        best == {i \in 1..Len(categories) : \A j \in 1..Len(categories) : Score(j) <= Score(i)}
    IN returned.category =
         IF Cardinality(best) = 1 THEN categories[CHOOSE i \in best : TRUE].category ELSE "general"

\* a word of the message that is all in capitals and longer than three characters
ShoutWord(word) == Len(word) > 3 /\ word = ToUpperCase(word)

\* C25: the priority of the local analysis is "high" exactly when at least two
\* high-priority keywords are present, or the message holds more than two
\* exclamation marks or a word all in capitals that is longer than three
\* characters; otherwise "low" exactly when a low-priority keyword is present;
\* otherwise "medium".
C25_PriorityRule ==
  applied = "performLocalAnalysis" =>
    LET words == Split(argument.text, Whitespace)
        shout == \/ CountChar(argument.text, "!") > 2
                 \/ \E i \in 1..Len(words) : ShoutWord(words[i])
        high == KeywordScore(AnalysedContent, highPriorityKeywords) >= 2 \/ shout
        low == KeywordScore(AnalysedContent, lowPriorityKeywords) > 0
    IN returned.priority = IF high THEN "high" ELSE IF low THEN "low" ELSE "medium"

\* the item the claim gives for a sentence whose text is text
ItemOf(text) == IF Len(text) <= 80 THEN text ELSE SubSeq(text, 1, 80) \o "..."

\* C26: the local action-item extractor returns at most 3 items, in document
\* order, one for each of the first sentences that contain an action verb; the
\* item is the text of the sentence when that has at most 80 characters, and
\* its first 80 characters followed by "..." exactly when it is longer. The
\* text of a sentence is read either way: as split, or with the white space
\* around it removed.
C26_ItemsAreSentences ==
  applied = "performLocalAnalysis" =>
    LET sentences == SelectSeq(Split(AnalysedContent, {".", "!", "?"}), HasActionVerb)
    IN /\ Len(returned.action_items) = Min(3, Len(sentences))
       /\ \A k \in 1..Len(returned.action_items) :
            \/ returned.action_items[k] = ItemOf(Trim(sentences[k]))
            \/ returned.action_items[k] = ItemOf(sentences[k])

(***************************************************************************)
(* Properties of the HTTP routes.                                          *)
(***************************************************************************)

EmailRoutes == {"GET /api/emails/latest/:sender", "POST /api/emails/extract-links"}

\* the key the request carries, "" when it carries none
CarriedKey == IF req.headerKey # "" THEN req.headerKey ELSE req.queryKey

Reached(step) == \E k \in 1..Len(reached) : reached[k] = step

InvalidInput ==
  \/ /\ req.route = "POST /api/automation/verify-email"
     /\ \/ Falsy(req.senderEmail)
        \/ ~(req.senderEmail.t = "string" /\ Includes(req.senderEmail.s, "@"))
        \/ /\ req.maxWaitTime.t # "undefined"
           /\ ~(req.maxWaitTime.t = "number" /\ req.maxWaitTime.n \in 5000..300000)
  \/ /\ req.route = "POST /api/emails/extract-links"
     /\ Falsy(req.emailContent)

\* C18: a request with a missing field or a value out of range, once it has
\* passed authentication and reached its handler, is answered 400, and no
\* verification workflow, mailbox connection or extraction is started for it
C18_InvalidRejected ==
  InvalidInput =>
    /\ Reached("handler") => status = 400
    /\ ~Reached("executeVerificationWorkflow")
    /\ ~Reached("connect")
    /\ ~Reached("extractVerificationLinks")

(***************************************************************************)
(* Properties of concurrent verification tasks.                            *)
(***************************************************************************)

\* workflow k has connected its mailbox and has not yet finished cleanup()
Running(k) == workflows[k].wpc \in {"polling", "launching", "verifying", "closing"}

\* C23: concurrent verification tasks share no resource. Two workflows never
\* hold the same Imap connection or the same browser process; while a
\* workflow runs, its connection is connected and the browser it launched is
\* open, whatever the other workflows have cleaned up; and a step changes only
\* the connection and the browser of the one workflow that takes it.
C23_NoSharedResources ==
  /\ [](\A a, b \in 1..Len(workflows) :
          a # b =>
            /\ workflows[a].emailClient # workflows[b].emailClient
            /\ workflows[a].browser # 0 => workflows[a].browser # workflows[b].browser)
  /\ [](\A k \in 1..Len(workflows) :
          Running(k) =>
            /\ imaps[workflows[k].emailClient] = "connected"
            /\ workflows[k].browser # 0 => browsers[workflows[k].browser] = "open")
  /\ [][\A k \in 1..Len(workflows) :
          workflows'[k] = workflows[k] =>
            /\ imaps'[workflows[k].emailClient] = imaps[workflows[k].emailClient]
            /\ workflows[k].browser # 0 =>
                 browsers'[workflows[k].browser] = browsers[workflows[k].browser]]_vars

\* C23: the first workflow has closed its browser and ended its connection
\* while the second is verifying with its own browser and connection
C23_Witness ==
  /\ Len(workflows) >= 2
  /\ workflows[1].wpc = "done"
  /\ workflows[1].browser # 0
  /\ browsers[workflows[1].browser] = "closed"
  /\ imaps[workflows[1].emailClient] = "ended"
  /\ workflows[2].wpc = "verifying"
  /\ workflows[2].browser # 0
  /\ browsers[workflows[2].browser] = "open"
  /\ imaps[workflows[2].emailClient] = "connected"


(***************************************************************************)
(* Properties of the rate limiters.                                        *)
(***************************************************************************)

\* C27: within one window the route handlers get at most 50 requests that
\* carry the same API key: the 51st request with the key and every later one
\* is rejected.
C27_PerKeyLimit == \A k \in DOMAIN handled : handled[k] <= KeyLimit


(***************************************************************************)
(* Properties of the mailbox client.                                       *)
(***************************************************************************)

\* C28: every message in the sequence searchEmails (getLatestFromSender)
\* resolves with carries the parsed fields subject, from, date, text and html,
\* in whatever order the 'end' events of the messages, the 'end' event of the
\* fetch and the callbacks of the parser fire.
C28_MessagesAreParsed ==
  (query.fn = "searchEmails" /\ resolved.kind = "return") =>
    \A i \in 1..Len(resolved.value) :
      {"subject", "from", "date", "text", "html"} \subseteq resolved.value[i].fields

\* the messages at positions offset .. offset + limit - 1 counted from the
\* newest, the newest being at position 0
Page(limit, offset) ==
  [i \in 1..Max(0, Min(limit, Len(inbox) - offset)) |-> inbox[Len(inbox) - offset - i + 1]]

\* C29: getAllEmails(limit, offset) with 1 <= limit <= 100 and offset >= 0
\* fetches and returns at most limit messages, those at positions offset ..
\* offset + limit - 1 counted from the newest, and none when offset is at or
\* beyond the number of messages.
C29_PageOfNewest ==
  (query.fn = "getAllEmails" /\ query.limit \in 1..100 /\ query.offset >= 0) =>
    /\ fetched = Page(query.limit, query.offset)
    /\ Len(fetched) <= query.limit
    /\ query.offset >= Len(inbox) => fetched = <<>>
    /\ resolved.kind = "return" =>
         /\ Len(resolved.value) = Len(fetched)
         /\ query.offset >= Len(inbox) => resolved.value = <<>>


(***************************************************************************)
(* Properties of MultiAIService.                                           *)
(***************************************************************************)

\* C30: analyzeEmail of MultiAIService never raises; when the provider of the
\* highest priority fails and a second provider is enabled, the second is
\* attempted, and its result is returned when it succeeds; and success = false
\* is reported only when no provider is enabled or every enabled provider that
\* is due, the first and with it the second, was attempted and failed.
C30_SecondProviderTried ==
  analysis.pc = "done" =>
    /\ multiResult.kind = "return"
    /\ ~multiResult.value.success =>
         \/ enabledProviders = <<>>
         \/ attempted = [i \in 1..Min(2, Len(enabledProviders)) |-> enabledProviders[i].name]

====
